---- MODULE Spec2Model ----
(***************************************************************************)
(* Model of the rocket-recovery application's telemetry playback service   *)
(* (MockTelemetryService, its React hook and the part of the mission store *)
(* the hook reads), of the flight integrators (calculateAscent,            *)
(* calculateDescent) and their assembly by calculateTrajectory, of the     *)
(* mission store's parameters and result, of the layered wind profile      *)
(* (createLayeredWindProfile) and of the landing uncertainty ellipse       *)
(* (calculateUncertaintyEllipse).                                          *)
(*                                                                         *)
(* Units of the playback model.  Date.now() is counted in wall-clock units *)
(* of U milliseconds.  playbackSpeed is stored multiplied by SpeedScale    *)
(* (so 0.5x is 1, 1x is 2, 2x is 4), and trajectory times are counted in   *)
(* units of U / (1000 * SpeedScale) seconds, so that the code's            *)
(*     elapsed = (Date.now() - startTimestamp) * playbackSpeed / 1000      *)
(* is the integer (now - startTimestamp) * playbackSpeed of the model.     *)
(***************************************************************************)
EXTENDS Integers, Sequences, FiniteSets, TLC

\* ------------------------------------------------------------------ bounds
MaxNow == 3
MaxTimers == 2
MaxHistory == 1
MaxHandles == 2
MaxWindCalls == 2
MaxPaused == 1

\* ------------------------------------------------------- program constants
SpeedScale == 2
UpdateInterval == 100

\* a null reference; timer ids, trajectory results and launch sites are
\* referred to by positive numbers
NULL == 0

Min(a, b) == IF a <= b THEN a ELSE b

Range(s) == {s[i] : i \in 1..Len(s)}

\* ------------------------------------------------------------ input domains
TelemetryModes == {"gps", "altitude_only", "none"}

\* two of the speeds the controls offer (0.5x and 1x), scaled by SpeedScale
PlaybackSpeeds == {1, 2}

\* arguments tried for setPlaybackSpeed: the offered speeds, 0 and -1x
SpeedInputs == PlaybackSpeeds \cup {0, -2}

\* the hook's subscriber and one other client callback
CallbackIds == {"hook", "a"}

Pt(t, zz, ph) == [time |-> t, z |-> <<zz, 1>>, phase |-> ph]

\* Trajectory results a simulation run can have produced.  The second one
\* repeats a time stamp, as an assembled trajectory does at apogee (last
\* ascent point and first descent point).
TrajectoryTable ==
  <<
    [trajectoryPoints |-> <<Pt(0, 0, "thrust"), Pt(3, 9, "coast"), Pt(6, 0, "descent")>>,
     totalFlightTime |-> 6],
    [trajectoryPoints |-> <<Pt(0, 0, "thrust"), Pt(2, 8, "coast"), Pt(2, 8, "descent"),
                            Pt(4, 0, "descent")>>,
     totalFlightTime |-> 4]
  >>

\* references to the trajectory results
TrajectoryResults == DOMAIN TrajectoryTable

LaunchSites == {1}

DEFAULT_CONFIG == [mode |-> "gps", updateInterval |-> UpdateInterval, playbackSpeed |-> SpeedScale]

\* -------------------------------------------------------------------- state
VARIABLES
  \* MockTelemetryService fields
  status, config, trajectoryResult, launchSite, currentIndex, currentTime,
  intervalId, callbacks, startTimestamp, pausedAt,
  \* environment: Date.now() and the live setInterval timers (id -> interval)
  now, timers,
  \* mission store fields read and written by the hook
  storeTrajectoryResult, telemetryStatus, telemetryHistory,
  \* unsubscribe closures returned by onTelemetry
  handles,
  \* observation of the last step: the call made on the service or through
  \* the hook's start ("none" for any other step), the elapsed time a tick
  \* computed, the points passed to the subscribers, the callbacks invoked
  \* (each with the getCurrentTime() and getTotalTime() it can read while it
  \* runs), the callbacks whose unsubscribe ran during the delivery
  lastCall, tickElapsed, emitted, delivered, unsubscribedDuring,
  \* observation of the current run: wall clock at start, wall clock at the
  \* last pause, total time spent paused, speed changed since start
  runStartedAt, runPausedAt, totalPaused, speedChanged

svcVars == <<status, config, trajectoryResult, launchSite, currentIndex, currentTime,
             intervalId, callbacks, startTimestamp, pausedAt>>
envVars == <<now, timers>>
storeVars == <<storeTrajectoryResult, telemetryStatus, telemetryHistory>>
obsVars == <<lastCall, tickElapsed, emitted, delivered, unsubscribedDuring>>
runVars == <<runStartedAt, runPausedAt, totalPaused, speedChanged>>
telemetryVars == <<svcVars, envVars, storeVars, handles, obsVars, runVars>>

\* ------------------------------------------------------------------- Init
TelemetryInit ==
  /\ status = "idle"
  /\ config = DEFAULT_CONFIG
  /\ trajectoryResult = NULL
  /\ launchSite = NULL
  /\ currentIndex = 0
  /\ currentTime = 0
  /\ intervalId = NULL
  /\ callbacks = <<>>
  /\ startTimestamp = 0
  /\ pausedAt = 0
  /\ now = 0
  /\ timers = <<>>
  /\ storeTrajectoryResult = NULL
  /\ telemetryStatus = "idle"
  /\ telemetryHistory = 0
  /\ handles = <<>>
  /\ lastCall = <<"new", 0>>
  /\ tickElapsed = -1
  /\ emitted = <<>>
  /\ delivered = <<>>
  /\ unsubscribedDuring = {}
  /\ runStartedAt = 0
  /\ runPausedAt = 0
  /\ totalPaused = 0
  /\ speedChanged = FALSE

\* ------------------------------------------------- timers (setInterval)
FreeTimerIds(tm) == {i \in 1..MaxTimers : i \notin DOMAIN tm}

\* setInterval can hand out an id (the model has MaxTimers of them)
TimerAvailable(iid, tm) == iid # NULL \/ FreeTimerIds(tm) # {}

\* clearInterval(id): the timer stops firing
clearInterval(tm, id) == [i \in DOMAIN tm \ {id} |-> tm[i]]

\* setInterval(cb, interval): a new live timer with an unused id
setInterval(tm, interval) ==
  LET id == CHOOSE i \in FreeTimerIds(tm) : \A j \in FreeTimerIds(tm) : i <= j
  IN [intervalId |-> id, timers |-> [i \in DOMAIN tm \cup {id} |-> IF i = id THEN interval ELSE tm[i]]]

\* stopEmitting() that forgets the id without clearing the timer
stopEmittingLeak(iid, tm) == [intervalId |-> NULL, timers |-> tm]

\* stopEmitting(): clear the timer the instance holds, forget its id
stopEmitting(iid, tm) ==
  IF iid # NULL
  THEN [intervalId |-> NULL, timers |-> clearInterval(tm, iid)]
  ELSE [intervalId |-> iid, timers |-> tm]

\* startEmitting(): nothing when a timer is held, else a timer of period
\* updateInterval / playbackSpeed
startEmitting(iid, tm, cfg) ==
  IF iid # NULL
  THEN [intervalId |-> iid, timers |-> tm]
  ELSE setInterval(tm, (cfg.updateInterval * SpeedScale) \div cfg.playbackSpeed)

\* ------------------------------------------------------------ accessors
getTotalTime(tr) == IF tr = NULL THEN 0 ELSE TrajectoryTable[tr].totalFlightTime

\* getProgress(): min(currentTime / total, 1) as a fraction <<num, den>>
getProgress(ct, tr) ==
  LET total == getTotalTime(tr)
  IN IF total = 0 THEN <<0, 1>> ELSE <<Min(ct, total), total>>

\* ---------------------------------------------------------- subscribers
\* Array.prototype.indexOf, 1-based, 0 when absent
indexOf(cbs, c) ==
  IF c \in Range(cbs)
  THEN CHOOSE i \in 1..Len(cbs) : cbs[i] = c /\ \A j \in 1..(i - 1) : cbs[j] # c
  ELSE 0

\* Array.prototype.splice(index, 1)
splice1(cbs, i) == [j \in 1..(Len(cbs) - 1) |-> IF j < i THEN cbs[j] ELSE cbs[j + 1]]

\* the closure returned by onTelemetry(callback)
unsubscribe(cbs, c) ==
  LET index == indexOf(cbs, c)
  IN IF index > 0 THEN splice1(cbs, index) ELSE cbs

RECURSIVE unsubscribeAll(_, _)
\* a callback calling the unsubscribe closures of the callbacks in cs
unsubscribeAll(cbs, cs) ==
  IF cs = {} THEN cbs
  ELSE LET c == CHOOSE e \in cs : TRUE
       IN unsubscribeAll(unsubscribe(cbs, c), cs \ {c})

RECURSIVE forEach(_, _, _, _, _, _)
\* this.callbacks.forEach(cb => cb(telemetry)): indexes 1..len of the array as
\* it is when each index is visited (len is read once, an index past the
\* end is skipped).  plan[n] is the set of callbacks whose unsubscribe
\* closure the n-th invoked callback calls; the hook's callback calls none.
forEach(cbs, k, len, plan, dl, un) ==
  IF k > len THEN [callbacks |-> cbs, delivered |-> dl, unsubscribed |-> un]
  ELSE IF k > Len(cbs) THEN forEach(cbs, k + 1, len, plan, dl, un)
  ELSE LET c == cbs[k]
           calls == IF c = "hook" THEN {} ELSE plan[Len(dl) + 1]
       IN forEach(unsubscribeAll(cbs, calls), k + 1, len, plan, Append(dl, c), un \cup calls)

\* what the callbacks of one delivery may do: plans over the callbacks that
\* have an unsubscribe closure
Plans(cbs, hs) == [1..Len(cbs) -> SUBSET {hs[i].cb : i \in 1..Len(hs)}]

\* ------------------------------------------------------- interpolation
RECURSIVE scan(_, _, _)
\* while (i < points.length - 1 && points[i + 1].time <= time) i++
\* (i is the 0-based index of the code; points is 1-based here)
scan(points, i, time) ==
  IF i < Len(points) - 1 /\ points[i + 2].time <= time
  THEN scan(points, i + 1, time)
  ELSE i

\* p1 + (p2 - p1) * t with t = (time - p1.time) / (p2.time - p1.time), kept as
\* the fraction <<numerator, denominator>>
lerp(a, b, time, t1, t2) == <<a * (t2 - t1) + (b - a) * (time - t1), t2 - t1>>

\* interpolatePoint(time, points) from cursor i0: the new cursor and the point
interpolatePoint(time, points, i0) ==
  LET i == scan(points, i0, time)
  IN IF i >= Len(points) - 1
     THEN [currentIndex |-> i, point |-> points[Len(points)]]
     ELSE LET p1 == points[i + 1]
              p2 == points[i + 2]
          IN [currentIndex |-> i,
              point |-> [time |-> time,
                         z |-> lerp(p1.z[1], p2.z[1], time, p1.time, p2.time),
                         phase |-> p2.phase]]

\* ------------------------------------------------------ tick (emitTelemetry)
\* emitTelemetry() that leaves currentTime at the elapsed time on completion
emitTelemetryUnclamped ==
  LET points == TrajectoryTable[trajectoryResult].trajectoryPoints
      totalTime == TrajectoryTable[trajectoryResult].totalFlightTime
      elapsed == (now - startTimestamp) * config.playbackSpeed
  IN IF elapsed >= totalTime
     THEN LET te == stopEmitting(intervalId, timers)
          IN [currentTime |-> elapsed, status |-> "completed",
              intervalId |-> te.intervalId, timers |-> te.timers,
              currentIndex |-> currentIndex, elapsed |-> elapsed,
              point |-> points[Len(points)]]
     ELSE LET r == interpolatePoint(elapsed, points, currentIndex)
          IN [currentTime |-> elapsed, status |-> status,
              intervalId |-> intervalId, timers |-> timers,
              currentIndex |-> r.currentIndex, elapsed |-> elapsed,
              point |-> r.point]

\* emitTelemetry() that keeps the timer on completion
emitTelemetryKeepsTimer ==
  LET points == TrajectoryTable[trajectoryResult].trajectoryPoints
      totalTime == TrajectoryTable[trajectoryResult].totalFlightTime
      elapsed == (now - startTimestamp) * config.playbackSpeed
  IN IF elapsed >= totalTime
     THEN [currentTime |-> totalTime, status |-> "completed",
           intervalId |-> intervalId, timers |-> timers,
           currentIndex |-> currentIndex, elapsed |-> elapsed,
           point |-> points[Len(points)]]
     ELSE LET r == interpolatePoint(elapsed, points, currentIndex)
          IN [currentTime |-> elapsed, status |-> status,
              intervalId |-> intervalId, timers |-> timers,
              currentIndex |-> r.currentIndex, elapsed |-> elapsed,
              point |-> r.point]

\* emitTelemetry() up to the call of emitPoint: the fields it assigns, the
\* elapsed time it computed and the point it passes on
emitTelemetry ==
  LET points == TrajectoryTable[trajectoryResult].trajectoryPoints
      totalTime == TrajectoryTable[trajectoryResult].totalFlightTime
      elapsed == (now - startTimestamp) * config.playbackSpeed
  IN IF elapsed >= totalTime
     THEN LET te == stopEmitting(intervalId, timers)
          IN [currentTime |-> totalTime, status |-> "completed",
              intervalId |-> te.intervalId, timers |-> te.timers,
              currentIndex |-> currentIndex, elapsed |-> elapsed,
              point |-> points[Len(points)]]
     ELSE LET r == interpolatePoint(elapsed, points, currentIndex)
          IN [currentTime |-> elapsed, status |-> status,
              intervalId |-> intervalId, timers |-> timers,
              currentIndex |-> r.currentIndex, elapsed |-> elapsed,
              point |-> r.point]

\* emitPoint(point): nothing in mode 'none', else the sample goes through
\* callbacks.forEach
emitPoint(point, plan) ==
  IF launchSite = NULL \/ config.mode = "none"
  THEN [emitted |-> <<>>, callbacks |-> callbacks, delivered |-> <<>>, unsubscribed |-> {}]
  ELSE LET r == forEach(callbacks, 1, Len(callbacks), plan, <<>>, {})
       IN [emitted |-> <<[point |-> point, mode |-> config.mode,
                          coordinates |-> (config.mode = "gps")]>>,
           callbacks |-> r.callbacks, delivered |-> r.delivered,
           unsubscribed |-> r.unsubscribed]

\* the hook's subscriber called n times: addTelemetryToHistory (the history
\* is kept by its length, counted up to MaxHistory)
HookCallback(n) ==
  telemetryHistory' = Min(telemetryHistory + n, MaxHistory)

\* what a callback reads from the service while it runs (the hook's callback
\* calls getProgress, getCurrentTime and getTotalTime)
Seen(dl, ct) ==
  [i \in 1..Len(dl) |-> [cb |-> dl[i], progress |-> getProgress(ct, trajectoryResult),
                         currentTime |-> ct,
                         totalTime |-> getTotalTime(trajectoryResult)]]

\* the callback of a live timer runs
Tick ==
  \E t \in DOMAIN timers :
    IF trajectoryResult = NULL \/ launchSite = NULL
    THEN /\ lastCall' = <<"tick", 0>>
         /\ tickElapsed' = -1 /\ emitted' = <<>> /\ delivered' = <<>>
         /\ unsubscribedDuring' = {}
         /\ UNCHANGED <<svcVars, envVars, storeVars, handles, runVars>>
    ELSE \E plan \in Plans(callbacks, handles) :
         LET e == emitTelemetry
             d == emitPoint(e.point, plan)
         IN /\ currentTime' = e.currentTime
            /\ status' = e.status
            /\ intervalId' = e.intervalId
            /\ timers' = e.timers
            /\ currentIndex' = e.currentIndex
            /\ callbacks' = d.callbacks
            /\ HookCallback(Cardinality({i \in 1..Len(d.delivered) : d.delivered[i] = "hook"}))
            /\ lastCall' = <<"tick", 0>>
            /\ tickElapsed' = e.elapsed
            /\ emitted' = d.emitted
            /\ delivered' = Seen(d.delivered, e.currentTime)
            /\ unsubscribedDuring' = d.unsubscribed
            /\ UNCHANGED <<config, trajectoryResult, launchSite, startTimestamp, pausedAt,
                           now, storeTrajectoryResult, telemetryStatus, handles, runVars>>

\* ------------------------------------------------------- service methods
\* what a step that calls no subscriber shows
Obs(call) ==
  /\ lastCall' = call
  /\ tickElapsed' = -1
  /\ emitted' = <<>>
  /\ delivered' = <<>>
  /\ unsubscribedDuring' = {}

\* start() while running, made to take effect
startRejectedNever(st) == FALSE

\* start() returns at once while running
startRejected(st) == st = "running"

\* MockTelemetryService.start
start(tr, ls, mode) ==
  IF startRejected(status)
  THEN UNCHANGED <<svcVars, timers, runVars>>
  ELSE LET cfg == [config EXCEPT !.mode = mode]
           te == startEmitting(intervalId, timers, cfg)
       IN /\ TimerAvailable(intervalId, timers)
          /\ trajectoryResult' = tr
          /\ launchSite' = ls
          /\ config' = cfg
          /\ currentIndex' = 0
          /\ currentTime' = 0
          /\ startTimestamp' = now
          /\ status' = "running"
          /\ intervalId' = te.intervalId
          /\ timers' = te.timers
          /\ runStartedAt' = now
          /\ totalPaused' = 0
          /\ speedChanged' = FALSE
          /\ UNCHANGED <<callbacks, pausedAt, runPausedAt>>

\* a call of start with a result of trs and a mode of modes
StartWith(trs, modes) ==
  \E tr \in trs, ls \in LaunchSites, mode \in modes :
    /\ start(tr, ls, mode)
    /\ Obs(<<"start", 0>>)
    /\ UNCHANGED <<now, storeVars, handles>>

Start == StartWith(TrajectoryResults, TelemetryModes)

\* stop() that leaves the scan cursor where it was
StopKeepsCursor ==
  LET te == stopEmitting(intervalId, timers)
  IN /\ intervalId' = te.intervalId
     /\ timers' = te.timers
     /\ status' = "idle"
     /\ currentTime' = 0
     /\ Obs(<<"stop", 0>>)
     /\ UNCHANGED <<config, trajectoryResult, launchSite, currentIndex, callbacks,
                    startTimestamp, pausedAt, now, storeVars, handles, runVars>>

\* MockTelemetryService.stop
Stop ==
  LET te == stopEmitting(intervalId, timers)
  IN /\ intervalId' = te.intervalId
     /\ timers' = te.timers
     /\ status' = "idle"
     /\ currentIndex' = 0
     /\ currentTime' = 0
     /\ Obs(<<"stop", 0>>)
     /\ UNCHANGED <<config, trajectoryResult, launchSite, callbacks, startTimestamp, pausedAt,
                    now, storeVars, handles, runVars>>

\* pause() taking effect in every status
pauseRejectedNever(st) == FALSE

\* pause() returns at once unless running
pauseRejected(st) == st # "running"

\* pause() that leaves the timer running
PauseKeepsTimer ==
  /\ IF pauseRejected(status)
     THEN UNCHANGED <<svcVars, timers, runVars>>
     ELSE /\ pausedAt' = now
          /\ status' = "paused"
          /\ runPausedAt' = now
          /\ UNCHANGED <<config, trajectoryResult, launchSite, currentIndex, currentTime,
                         intervalId, timers, callbacks, startTimestamp, runStartedAt,
                         totalPaused, speedChanged>>
  /\ Obs(<<"pause", 0>>)
  /\ UNCHANGED <<now, storeVars, handles>>

\* MockTelemetryService.pause
Pause ==
  /\ IF pauseRejected(status)
     THEN UNCHANGED <<svcVars, timers, runVars>>
     ELSE LET te == stopEmitting(intervalId, timers)
          IN /\ intervalId' = te.intervalId
             /\ timers' = te.timers
             /\ pausedAt' = now
             /\ status' = "paused"
             /\ runPausedAt' = now
             /\ UNCHANGED <<config, trajectoryResult, launchSite, currentIndex, currentTime,
                            callbacks, startTimestamp, runStartedAt, totalPaused, speedChanged>>
  /\ Obs(<<"pause", 0>>)
  /\ UNCHANGED <<now, storeVars, handles>>

\* resume() that leaves the anchor where it was
resumedAnchorKept(anchor, pausedSince, tt) == anchor

\* the anchor after resume(): moved forward by the paused duration
resumedAnchor(anchor, pausedSince, tt) == anchor + (tt - pausedSince)

\* resume() returning at once in every status
resumeRejectedAlways(st) == TRUE

\* resume() returns at once unless paused
resumeRejected(st) == st # "paused"

\* MockTelemetryService.resume
Resume ==
  /\ IF resumeRejected(status)
     THEN UNCHANGED <<svcVars, timers, runVars>>
     ELSE LET te == startEmitting(intervalId, timers, config)
          IN /\ TimerAvailable(intervalId, timers)
             /\ startTimestamp' = resumedAnchor(startTimestamp, pausedAt, now)
             /\ status' = "running"
             /\ intervalId' = te.intervalId
             /\ timers' = te.timers
             /\ totalPaused' = totalPaused + (now - runPausedAt)
             /\ UNCHANGED <<config, trajectoryResult, launchSite, currentIndex, currentTime,
                            callbacks, pausedAt, runStartedAt, runPausedAt, speedChanged>>
  /\ Obs(<<"resume", 0>>)
  /\ UNCHANGED <<now, storeVars, handles>>

\* setPlaybackSpeed() returns at once for a speed that is not positive
speedRejected(speed) == speed <= 0

\* MockTelemetryService.setPlaybackSpeed
SetPlaybackSpeed ==
  \E speed \in SpeedInputs :
    /\ IF speedRejected(speed)
       THEN UNCHANGED <<svcVars, timers, runVars>>
       ELSE LET wasRunning == (status = "running")
                stopped == IF wasRunning THEN stopEmitting(intervalId, timers)
                           ELSE [intervalId |-> intervalId, timers |-> timers]
                cfg == [config EXCEPT !.playbackSpeed = speed]
                te == IF wasRunning THEN startEmitting(stopped.intervalId, stopped.timers, cfg)
                      ELSE stopped
            IN /\ (wasRunning => TimerAvailable(stopped.intervalId, stopped.timers))
               /\ config' = cfg
               /\ intervalId' = te.intervalId
               /\ timers' = te.timers
               /\ speedChanged' = (speedChanged \/ speed # config.playbackSpeed)
               /\ UNCHANGED <<status, trajectoryResult, launchSite, currentIndex, currentTime,
                              callbacks, startTimestamp, pausedAt,
                              runStartedAt, runPausedAt, totalPaused>>
    /\ Obs(<<"setPlaybackSpeed", speed>>)
    /\ UNCHANGED <<now, storeVars, handles>>

\* MockTelemetryService.setMode
SetMode ==
  \E mode \in TelemetryModes :
    /\ config' = [config EXCEPT !.mode = mode]
    /\ Obs(<<"none", 0>>)
    /\ UNCHANGED <<status, trajectoryResult, launchSite, currentIndex, currentTime,
                   intervalId, callbacks, startTimestamp, pausedAt,
                   envVars, storeVars, handles, runVars>>

\* MockTelemetryService.onTelemetry: the callback is appended and an
\* unsubscribe closure over it is returned
OnTelemetry ==
  \E c \in CallbackIds :
    /\ Len(handles) < MaxHandles
    /\ callbacks' = Append(callbacks, c)
    /\ handles' = Append(handles, [cb |-> c, called |-> FALSE])
    /\ Obs(<<"none", 0>>)
    /\ UNCHANGED <<status, config, trajectoryResult, launchSite, currentIndex, currentTime,
                   intervalId, startTimestamp, pausedAt,
                   envVars, storeVars, runVars>>

\* a call of the closure onTelemetry returned as its h-th result
Unsubscribe ==
  \E h \in 1..Len(handles) :
    /\ callbacks' = unsubscribe(callbacks, handles[h].cb)
    /\ handles' = [handles EXCEPT ![h].called = TRUE]
    /\ Obs(<<"unsubscribe", h>>)
    /\ UNCHANGED <<status, config, trajectoryResult, launchSite, currentIndex, currentTime,
                   intervalId, startTimestamp, pausedAt,
                   envVars, storeVars, runVars>>

\* ------------------------------------------------------- hook and store
\* useTelemetrySimulation mounts: its effect subscribes the hook's callback
HookMount ==
  /\ handles = <<>>
  /\ callbacks' = Append(callbacks, "hook")
  /\ handles' = Append(handles, [cb |-> "hook", called |-> FALSE])
  /\ Obs(<<"none", 0>>)
  /\ UNCHANGED <<status, config, trajectoryResult, launchSite, currentIndex, currentTime,
                 intervalId, startTimestamp, pausedAt,
                 envVars, storeVars, runVars>>

\* useTelemetrySimulation.start: warns and returns without a trajectory,
\* else clearTelemetryHistory, service.start, setTelemetryStatus('running')
HookStartWith(modes) ==
  \E mode \in modes :
    /\ IF storeTrajectoryResult = NULL
       THEN UNCHANGED <<svcVars, timers, runVars, telemetryStatus, telemetryHistory>>
       ELSE /\ start(storeTrajectoryResult, 1, mode)
            /\ telemetryHistory' = 0
            /\ telemetryStatus' = "running"
    /\ Obs(<<"hookStart", 0>>)
    /\ UNCHANGED <<now, storeTrajectoryResult, handles>>

HookStart == HookStartWith(TelemetryModes)

\* missionStore.runSimulation: a trajectory result is stored (the result of
\* calculateTrajectory is one of TrajectoryResults)
RunSimulation ==
  \E tr \in TrajectoryResults :
    /\ storeTrajectoryResult' = tr
    /\ Obs(<<"none", 0>>)
    /\ UNCHANGED <<svcVars, envVars, telemetryStatus, telemetryHistory,
                   handles, runVars>>

\* missionStore.setLaunchSite / setRocketParams / setRecoveryParams /
\* setWeatherData: the stored result is cleared
SetParams ==
  /\ storeTrajectoryResult' = NULL
  /\ Obs(<<"none", 0>>)
  /\ UNCHANGED <<svcVars, envVars, telemetryStatus, telemetryHistory,
                 handles, runVars>>

\* Date.now() moves on
AdvanceClock ==
  /\ now < MaxNow
  /\ now' = now + 1
  /\ Obs(<<"none", 0>>)
  /\ UNCHANGED <<svcVars, timers, storeVars, handles, runVars>>

\* =================================================== descent integrator
\* calculateDescent, in fixed point: lengths in cm, velocities in cm/s,
\* accelerations in cm/s^2, times in ms.  Divisions round down where the code
\* computes in floating point.

maxIterations == 10000

Abs(a) == IF a < 0 THEN -a ELSE a

RECURSIVE isqrtIter(_, _, _)
isqrtIter(n, lo, hi) ==
  IF lo >= hi THEN lo
  ELSE LET mid == (lo + hi + 1) \div 2
       IN IF mid * mid <= n THEN isqrtIter(n, mid, hi) ELSE isqrtIter(n, lo, mid - 1)

\* Math.sqrt, rounded down
sqrt(n) == isqrtIter(n, 0, 46340)

\* Math.sin / Math.cos of the wind headings used (multiples of 90 degrees)
sinDeg(d) == CASE d = 0 -> 0 [] d = 90 -> 1 [] d = 180 -> 0 [] d = 270 -> -1
cosDeg(d) == CASE d = 0 -> 1 [] d = 90 -> 0 [] d = 180 -> -1 [] d = 270 -> 0

\* getWindComponents: the direction the wind blows to, east and north parts
getWindComponents(windSpeed, windDirection) ==
  LET windTo == (windDirection + 180) % 360
  IN [wx |-> windSpeed * sinDeg(windTo), wy |-> windSpeed * cosDeg(windTo)]

\* getGravity(z) = g0 * (RE / (RE + z))^2 to first order in z / RE:
\* 980.665 cm/s^2 at sea level, 1 cm/s^2 less per 3248 m
getGravity(zz) == 981 - (zz \div 324800)

\* getDensity(z) = P / (R * T) of the standard atmosphere, in thousandths of
\* the sea-level density: 9.2 % less per km near the ground
getDensity(zz) == LET d == 1000 - (zz \div 1087) IN IF d < 0 THEN 0 ELSE d

\* 0.5 * density * velocityRel^2 * cd * area * (component / velocityRel) /
\* rocketMass, where dragK is 0.5 * rho0 * cd * area / rocketMass in 1e-5/cm
dragAccel(dragK, density, velocityRel, component) ==
  (((((velocityRel * component) \div 100) * density) \div 1000) * dragK) \div 1000

\* getRecoveryDragParams folded with the mass: 0.5 * rho0 * cd * area / mass
\* for the 0.3 m parachute (Cd 1.75), a 0.01 m^2 streamer (Cd 1.2) and the
\* bare 25 mm body (Cd 0.5) of a 0.08 kg rocket
getRecoveryDragParams(method) ==
  CASE method = "parachute" -> 947
    [] method = "streamer" -> 92
    [] method = "freefall" -> 2

\* the inputs tried: the two unit tests on the landing altitude (parachute
\* from 100 m to ground 0; from 200 m to ground level 100 m, here in wind), a
\* start on the ground, a start below the ground, and a free fall from
\* 1000 m with a 1 ms step, which is still aloft after maxIterations steps
DescentInputs ==
  {
    [method |-> "parachute", startPosition |-> [x |-> 0, y |-> 0, z |-> 10000],
     startVelocity |-> [x |-> 0, y |-> 0, z |-> 0], startTime |-> 5000,
     groundLevel |-> 0, wind |-> [speed |-> 0, direction |-> 0], timeStep |-> 50],
    [method |-> "parachute", startPosition |-> [x |-> 0, y |-> 0, z |-> 20000],
     startVelocity |-> [x |-> 0, y |-> 0, z |-> 0], startTime |-> 0,
     groundLevel |-> 10000, wind |-> [speed |-> 300, direction |-> 270], timeStep |-> 50],
    [method |-> "streamer", startPosition |-> [x |-> 120, y |-> -40, z |-> 3000],
     startVelocity |-> [x |-> 0, y |-> 0, z |-> -10], startTime |-> 2460,
     groundLevel |-> 0, wind |-> [speed |-> 500, direction |-> 180], timeStep |-> 50],
    [method |-> "parachute", startPosition |-> [x |-> 50, y |-> 0, z |-> 500],
     startVelocity |-> [x |-> 0, y |-> 0, z |-> -10], startTime |-> 1000,
     groundLevel |-> 500, wind |-> [speed |-> 0, direction |-> 0], timeStep |-> 50],
    [method |-> "freefall", startPosition |-> [x |-> 0, y |-> 70, z |-> -200],
     startVelocity |-> [x |-> 0, y |-> 0, z |-> -10], startTime |-> 1000,
     groundLevel |-> 0, wind |-> [speed |-> 0, direction |-> 0], timeStep |-> 50],
    [method |-> "freefall", startPosition |-> [x |-> 0, y |-> 0, z |-> 100000],
     startVelocity |-> [x |-> 0, y |-> 0, z |-> -10], startTime |-> 0,
     groundLevel |-> 0, wind |-> [speed |-> 0, direction |-> 0], timeStep |-> 1]
  }

VARIABLES
  \* calculateDescent: its input, its locals, where it stands and its result
  input, x, y, z, vx, vy, vz, t, iteration, trajectoryPoints,
  totalDescentRate, descentSamples, pc, result

descentVars == <<input, x, y, z, vx, vy, vz, t, iteration, trajectoryPoints,
                 totalDescentRate, descentSamples, pc, result>>

VARIABLES
  \* calculateAscent: its input, the locals it has besides those it shares
  \* in name with calculateDescent (x, y, z, vx, vy, vz, t, iteration,
  \* trajectoryPoints, held by the variables above while it runs) and its result
  ascentInput, mass, maxVelocity, burnoutAltitude, burnoutVelocity, ascentResult,
  \* calculateTrajectory: its input and its result
  trajectoryInput, trajectory

flightVars == <<ascentInput, mass, maxVelocity, burnoutAltitude, burnoutVelocity,
                ascentResult, trajectoryInput, trajectory>>

VARIABLES
  \* mission store: the four parameter objects and the fields runSimulation
  \* writes besides trajectoryResult (storeTrajectoryResult above)
  storeLaunchSite, rocketParams, recoveryParams, weatherData,
  viewMode, isCalculating, calculationError,
  \* the parameter objects the stored result was computed from
  computedFrom

missionVars == <<storeLaunchSite, rocketParams, recoveryParams, weatherData,
                 viewMode, isCalculating, calculationError, computedFrom>>

VARIABLES
  \* the caller's weather: surface wind and the windLayers array
  surfaceWind, windLayers,
  \* the wind profile made from it: the number of profiles made so far
  \* (counted up to MaxWindCalls) and the layers array the last one closes over
  windCalls, layers,
  \* the last getWindAtAltitude call: its argument (-1 before any) and result
  windAltitude, windResult

windVars == <<surfaceWind, windLayers, windCalls, layers, windAltitude, windResult>>

VARIABLES
  \* several MockTelemetryService instances side by side: the config objects
  \* on the heap (reference -> fields), each instance's status, the reference
  \* its config field holds and the period of its live timer (0 when it has
  \* none), and the last call made (method, instance, argument)
  configObjects, services, instanceCall

instanceVars == <<configObjects, services, instanceCall>>

VARIABLES
  \* a call of calculateUncertaintyEllipse: its arguments, whether it has
  \* returned, and the ellipse it returned
  nominalDrift, ellipseWindDirection, ellipseReturned, ellipse

ellipseVars == <<nominalDrift, ellipseWindDirection, ellipseReturned, ellipse>>

\* the variables the playback and descent actions leave alone
restVars == <<flightVars, missionVars, windVars, instanceVars, ellipseVars>>

vars == <<telemetryVars, descentVars, restVars>>

\* no integration in progress
DescentIdle ==
  /\ input = NULL
  /\ x = 0 /\ y = 0 /\ z = 0
  /\ vx = 0 /\ vy = 0 /\ vz = 0
  /\ t = 0
  /\ iteration = 0
  /\ trajectoryPoints = <<>>
  /\ totalDescentRate = 0
  /\ descentSamples = 0
  /\ pc = "idle"
  /\ result = NULL

\* calculateDescent is entered with one of the inputs
DescentInit ==
  /\ input \in DescentInputs
  /\ x = input.startPosition.x /\ y = input.startPosition.y /\ z = input.startPosition.z
  /\ vx = input.startVelocity.x /\ vy = input.startVelocity.y /\ vz = input.startVelocity.z
  /\ t = input.startTime
  /\ iteration = 0
  /\ trajectoryPoints = <<>>
  /\ totalDescentRate = 0
  /\ descentSamples = 0
  /\ pc = "descent"
  /\ result = NULL

\* Math.abs(t % 0.2) < timeStep / 2
sampleDue(tt, timeStep) == Abs(tt % 200) * 2 < timeStep

\* one pass of the while loop
DescentStep ==
  /\ pc = "descent"
  /\ z > input.groundLevel /\ iteration < maxIterations
  /\ LET timeStep == input.timeStep
         w == getWindComponents(input.wind.speed, input.wind.direction)
         descentRate == -vz
         vxRel == vx - w.wx
         vyRel == vy - w.wy
         vzRel == vz
         vsq == vxRel * vxRel + vyRel * vyRel + vzRel * vzRel
         velocityRel == sqrt(vsq)
         g == getGravity(z)
         density == getDensity(z)
         dragK == getRecoveryDragParams(input.method)
         moving == vsq > 1
         dragX == IF moving THEN dragAccel(dragK, density, velocityRel, vxRel) ELSE 0
         dragY == IF moving THEN dragAccel(dragK, density, velocityRel, vyRel) ELSE 0
         dragZ == IF moving THEN dragAccel(dragK, density, velocityRel, vzRel) ELSE 0
         ax == -dragX
         ay == -dragY
         az == -dragZ - g
         vx2 == vx + (ax * timeStep) \div 1000
         vy2 == vy + (ay * timeStep) \div 1000
         vz2 == vz + (az * timeStep) \div 1000
     IN /\ totalDescentRate' = IF descentRate > 0 THEN totalDescentRate + descentRate
                               ELSE totalDescentRate
        /\ descentSamples' = IF descentRate > 0 THEN descentSamples + 1 ELSE descentSamples
        /\ trajectoryPoints' =
             IF sampleDue(t, timeStep)
             THEN Append(trajectoryPoints,
                         [time |-> t, position |-> [x |-> x, y |-> y, z |-> z],
                          velocity |-> [x |-> vx, y |-> vy, z |-> vz], phase |-> "descent"])
             ELSE trajectoryPoints
        /\ vx' = vx2 /\ vy' = vy2 /\ vz' = vz2
        /\ x' = x + (vx2 * timeStep) \div 1000
        /\ y' = y + (vy2 * timeStep) \div 1000
        /\ z' = z + (vz2 * timeStep) \div 1000
        /\ t' = t + timeStep
        /\ iteration' = iteration + 1
  /\ UNCHANGED <<input, pc, result, telemetryVars, restVars>>

\* a final point left at the altitude the loop ended with
finalPointAtZ ==
  [time |-> t, position |-> [x |-> x, y |-> y, z |-> z],
   velocity |-> [x |-> vx, y |-> vy, z |-> vz], phase |-> "descent"]

\* the final point pushed after the loop
finalPoint ==
  [time |-> t, position |-> [x |-> x, y |-> y, z |-> input.groundLevel],
   velocity |-> [x |-> vx, y |-> vy, z |-> vz], phase |-> "descent"]

\* the code after the loop: the final point and the result
DescentFinish ==
  /\ pc = "descent"
  /\ ~(z > input.groundLevel /\ iteration < maxIterations)
  /\ LET points == Append(trajectoryPoints, finalPoint)
     IN /\ trajectoryPoints' = points
        /\ result' = [trajectoryPoints |-> points,
                      landing |-> [time |-> t,
                                   position |-> [x |-> x, y |-> y, z |-> input.groundLevel],
                                   velocity |-> sqrt(vx * vx + vy * vy + vz * vz)],
                      descentTime |-> t - input.startTime,
                      averageDescentRate |-> IF descentSamples > 0
                                             THEN totalDescentRate \div descentSamples
                                             ELSE 0]
  /\ pc' = "done"
  /\ UNCHANGED <<input, x, y, z, vx, vy, vz, t, iteration, totalDescentRate, descentSamples,
                 telemetryVars, restVars>>

\* ===================================================== ascent integrator
\* calculateAscent, in the same fixed point: masses in mg, forces in mN, the
\* motor's total impulse in mN s, the body diameter in mm, the drag
\* coefficient in hundredths.

\* the rocket of the unit tests (80 g dry, 10 g propellant, 5 N s in 0.5 s)
testRocket ==
  [dryMass |-> 80000, propellantMass |-> 10000, bodyDiameter |-> 25,
   dragCoefficient |-> 50, motorTotalImpulse |-> 5000, motorBurnTime |-> 500]

\* the same airframe with a motor too weak to lift it (0.2 N s in 0.5 s)
weakRocket == [testRocket EXCEPT !.motorTotalImpulse = 200]

\* the same airframe with a 1.2 N s motor, whose ascent ends one step after
\* a step at which a trajectory point is recorded
smallMotorRocket == [testRocket EXCEPT !.motorTotalImpulse = 1200]

\* the same airframe with the burn time field emptied in the form, which
\* the number input turns into 0
zeroBurnRocket == [testRocket EXCEPT !.motorBurnTime = 0]

\* DEFAULT_ROCKET_PARAMS (50 g dry, 6.2 g propellant, 2.5 N s in 0.5 s)
DEFAULT_ROCKET_PARAMS ==
  [dryMass |-> 50000, propellantMass |-> 6200, bodyDiameter |-> 25,
   dragCoefficient |-> 50, motorTotalImpulse |-> 2500, motorBurnTime |-> 500]

\* the inputs tried for calculateAscent: the unit tests' vertical launch with
\* the default step, from a site at 100 m in wind, with steps of 10 ms and of
\* 30 ms, the default rocket, and two launches with a 1 ms step that never
\* leave the pad and so never meet the apogee condition: the weak motor and
\* the motor with a burn time of 0
AscentInputs ==
  {
    [rocket |-> testRocket, launchAngle |-> 90, launchAzimuth |-> 0, launchElevation |-> 0,
     windSpeed |-> 0, windDirection |-> 0, timeStep |-> 20],
    [rocket |-> testRocket, launchAngle |-> 90, launchAzimuth |-> 0, launchElevation |-> 10000,
     windSpeed |-> 300, windDirection |-> 270, timeStep |-> 20],
    [rocket |-> testRocket, launchAngle |-> 90, launchAzimuth |-> 0, launchElevation |-> 0,
     windSpeed |-> 0, windDirection |-> 0, timeStep |-> 10],
    [rocket |-> testRocket, launchAngle |-> 90, launchAzimuth |-> 0, launchElevation |-> 0,
     windSpeed |-> 500, windDirection |-> 180, timeStep |-> 30],
    [rocket |-> DEFAULT_ROCKET_PARAMS, launchAngle |-> 90, launchAzimuth |-> 0,
     launchElevation |-> 0, windSpeed |-> 0, windDirection |-> 0, timeStep |-> 20],
    [rocket |-> weakRocket, launchAngle |-> 90, launchAzimuth |-> 0, launchElevation |-> 0,
     windSpeed |-> 0, windDirection |-> 0, timeStep |-> 1],
    [rocket |-> zeroBurnRocket, launchAngle |-> 90, launchAzimuth |-> 0, launchElevation |-> 0,
     windSpeed |-> 0, windDirection |-> 0, timeStep |-> 1]
  }

\* Math.PI * Math.pow(bodyDiameter / 2, 2), in mm^2
referenceArea(rocket) == (355 * rocket.bodyDiameter * rocket.bodyDiameter) \div 452

\* motorTotalImpulse / motorBurnTime, in mN
averageThrust(rocket) == (rocket.motorTotalImpulse * 1000) \div rocket.motorBurnTime

\* massFlowRate * timeStep, in mg
burnedPerStep(rocket, timeStep) == (rocket.propellantMass * timeStep) \div rocket.motorBurnTime

\* calculateDrag: 0.5 * density * velocity^2 * cd * referenceArea, in mN
\* (0.5 * 1.225 kg/m^3 * 1e-2 * 1e-6 m^2/mm^2 * 1e3 mN/N is 1 / 163265)
calculateDrag(velocity, cd, area, zz) ==
  (((((velocity * velocity) \div 10000) * getDensity(zz)) \div 1000) * (cd * area)) \div 163265

\* a force in mN on a mass in mg, as an acceleration in cm/s^2
accel(force, m) == (force * 1000) \div (m \div 100)

\* the thrust phase tagged coast and the coast phase tagged thrust
phaseOfSwapped(tt, rocket) == IF tt < rocket.motorBurnTime THEN "coast" ELSE "thrust"

\* phase = isBurning ? 'thrust' : 'coast'
phaseOf(tt, rocket) == IF tt < rocket.motorBurnTime THEN "thrust" ELSE "coast"

\* Math.abs(t % 0.1) < timeStep / 2 || t === 0
ascentSampleDue(tt, timeStep) == Abs(tt % 100) * 2 < timeStep \/ tt = 0

\* the apogee declared as soon as the vertical velocity is negative
apogeeReachedAnywhere(vvz, zz, launchElevation) == vvz < 0

\* vz < 0 && z > launchElevation + 1
apogeeReached(vvz, zz, launchElevation) == vvz < 0 /\ zz > launchElevation + 100

\* no call of calculateAscent or calculateTrajectory in progress
FlightIdle ==
  /\ ascentInput = NULL
  /\ mass = 0
  /\ maxVelocity = 0
  /\ burnoutAltitude = 0
  /\ burnoutVelocity = 0
  /\ ascentResult = NULL
  /\ trajectoryInput = NULL
  /\ trajectory = NULL

\* calculateAscent is entered with the input ai
AscentBegin(ai) ==
  /\ ascentInput = ai
  /\ x = 0 /\ y = 0 /\ z = ai.launchElevation
  /\ vx = 0 /\ vy = 0 /\ vz = 0
  /\ t = 0
  /\ mass = ai.rocket.dryMass + ai.rocket.propellantMass
  /\ trajectoryPoints = <<>>
  /\ maxVelocity = 0
  /\ burnoutAltitude = 0
  /\ burnoutVelocity = 0
  /\ iteration = 0
  /\ pc = "ascent"
  /\ ascentResult = NULL
  /\ input = NULL
  /\ totalDescentRate = 0
  /\ descentSamples = 0
  /\ result = NULL
  /\ trajectory = NULL

\* calculateAscent called on its own with one of the inputs
AscentInit ==
  /\ trajectoryInput = NULL
  /\ \E ai \in AscentInputs : AscentBegin(ai)

\* the loop of calculateAscent runs on while the cap is not reached
ascentLoopUncapped(iter) == TRUE

\* while (iteration < maxIterations)
ascentLoop(iter) == iter < maxIterations

\* one pass of the while loop: up to the break at the apogee, or to the end
AscentStep ==
  /\ pc = "ascent"
  /\ ascentLoop(iteration)
  /\ LET rocket == ascentInput.rocket
         timeStep == ascentInput.timeStep
         launchElevation == ascentInput.launchElevation
         initialVx == sinDeg(ascentInput.launchAzimuth) * cosDeg(ascentInput.launchAngle)
         initialVy == cosDeg(ascentInput.launchAzimuth) * cosDeg(ascentInput.launchAngle)
         initialVz == sinDeg(ascentInput.launchAngle)
         w == getWindComponents(ascentInput.windSpeed, ascentInput.windDirection)
         velocity == sqrt(vx * vx + vy * vy + vz * vz)
         vxRel == vx - w.wx
         vyRel == vy - w.wy
         vzRel == vz
         velocityRel == sqrt(vxRel * vxRel + vyRel * vyRel + vzRel * vzRel)
         isBurning == t < rocket.motorBurnTime
         points == IF ascentSampleDue(t, timeStep)
                   THEN Append(trajectoryPoints,
                               [time |-> t, position |-> [x |-> x, y |-> y, z |-> z],
                                velocity |-> [x |-> vx, y |-> vy, z |-> vz],
                                phase |-> phaseOf(t, rocket)])
                   ELSE trajectoryPoints
         g == getGravity(z)
         drag == IF velocityRel > 10
                 THEN calculateDrag(velocityRel, rocket.dragCoefficient, referenceArea(rocket), z)
                 ELSE 0
         dragX == IF velocityRel > 10 THEN (-drag * vxRel) \div velocityRel ELSE 0
         dragY == IF velocityRel > 10 THEN (-drag * vyRel) \div velocityRel ELSE 0
         dragZ == IF velocityRel > 10 THEN (-drag * vzRel) \div velocityRel ELSE 0
         thrust == averageThrust(rocket)
         thrustX == IF ~isBurning THEN 0
                    ELSE IF velocity > 10 THEN (thrust * vx) \div velocity ELSE thrust * initialVx
         thrustY == IF ~isBurning THEN 0
                    ELSE IF velocity > 10 THEN (thrust * vy) \div velocity ELSE thrust * initialVy
         thrustZ == IF ~isBurning THEN 0
                    ELSE IF velocity > 10 THEN (thrust * vz) \div velocity ELSE thrust * initialVz
         mass2 == IF isBurning THEN mass - burnedPerStep(rocket, timeStep) ELSE mass
         atBurnout == ~isBurning /\ burnoutAltitude = 0
         ax == accel(thrustX + dragX, mass2)
         ay == accel(thrustY + dragY, mass2)
         az == accel(thrustZ + dragZ, mass2) - g
         vx2 == vx + (ax * timeStep) \div 1000
         vy2 == vy + (ay * timeStep) \div 1000
         vz2 == vz + (az * timeStep) \div 1000
     IN /\ maxVelocity' = IF velocity > maxVelocity THEN velocity ELSE maxVelocity
        /\ trajectoryPoints' = points
        /\ IF apogeeReached(vz, z, launchElevation)
           THEN /\ pc' = "apogee"
                /\ UNCHANGED <<x, y, z, vx, vy, vz, t, mass, burnoutAltitude, burnoutVelocity,
                               iteration>>
           ELSE /\ mass' = mass2
                /\ burnoutAltitude' = IF atBurnout THEN z - launchElevation ELSE burnoutAltitude
                /\ burnoutVelocity' = IF atBurnout THEN velocity ELSE burnoutVelocity
                /\ vx' = vx2 /\ vy' = vy2 /\ vz' = vz2
                /\ x' = x + (vx2 * timeStep) \div 1000
                /\ y' = y + (vy2 * timeStep) \div 1000
                /\ z' = z + (vz2 * timeStep) \div 1000
                /\ t' = t + timeStep
                /\ iteration' = iteration + 1
                /\ pc' = pc
  /\ UNCHANGED <<input, totalDescentRate, descentSamples, result, ascentInput, ascentResult,
                 trajectoryInput, trajectory, telemetryVars, missionVars, windVars, instanceVars, ellipseVars>>

\* the code after the loop of calculateAscent: the final point and the result
AscentFinish ==
  /\ \/ pc = "apogee"
     \/ (pc = "ascent" /\ ~ascentLoop(iteration))
  /\ LET finalAscentPoint == [time |-> t, position |-> [x |-> x, y |-> y, z |-> z],
                              velocity |-> [x |-> vx, y |-> vy, z |-> vz], phase |-> "coast"]
         points == Append(trajectoryPoints, finalAscentPoint)
     IN /\ trajectoryPoints' = points
        /\ ascentResult' = [trajectoryPoints |-> points,
                            apogee |-> [time |-> t,
                                        altitude |-> z - ascentInput.launchElevation,
                                        position |-> [x |-> x, y |-> y, z |-> z]],
                            maxVelocity |-> maxVelocity,
                            burnoutAltitude |-> burnoutAltitude,
                            burnoutVelocity |-> burnoutVelocity]
  /\ pc' = "ascentDone"
  /\ UNCHANGED <<input, x, y, z, vx, vy, vz, t, iteration, totalDescentRate, descentSamples,
                 result, ascentInput, mass, maxVelocity, burnoutAltitude, burnoutVelocity,
                 trajectoryInput, trajectory, telemetryVars, missionVars, windVars, instanceVars, ellipseVars>>

\* ================================================== trajectory assembly
\* calculateTrajectory: calculateAscent, then calculateDescent seeded at the
\* apogee, then the two point sequences joined.  The weather has no wind
\* layers here, so the wind profile is the surface wind at every altitude.

\* the inputs tried: the unit tests' rocket with each recovery method, from
\* sea level and from a site at 100 m, in calm and in wind, the rocket that
\* never leaves the pad, and the rocket with the small motor
TrajectoryInputTable ==
  [i \in 1..14 |->
     IF i >= 13
     THEN [rocket |-> IF i = 13 THEN weakRocket ELSE smallMotorRocket,
           recovery |-> [method |-> "parachute"],
           launchSite |-> [elevation |-> 0, launchAngle |-> 90, launchAzimuth |-> 0],
           weather |-> [surfaceWindSpeed |-> 0, surfaceWindDirection |-> 0]]
     ELSE [rocket |-> testRocket,
           recovery |-> [method |-> <<"parachute", "streamer", "freefall">>[((i - 1) \div 4) + 1]],
           launchSite |-> [elevation |-> 10000 * (((i - 1) \div 2) % 2),
                           launchAngle |-> 90, launchAzimuth |-> 0],
           weather |-> [surfaceWindSpeed |-> 300 * ((i - 1) % 2),
                        surfaceWindDirection |-> 270]]]

\* references to the inputs
TrajectoryInputs == DOMAIN TrajectoryInputTable

\* the AscentInput calculateTrajectory builds (timeStep left to its default)
ascentInputOf(ti) ==
  [rocket |-> ti.rocket,
   launchAngle |-> ti.launchSite.launchAngle,
   launchAzimuth |-> ti.launchSite.launchAzimuth,
   launchElevation |-> ti.launchSite.elevation,
   windSpeed |-> ti.weather.surfaceWindSpeed,
   windDirection |-> ti.weather.surfaceWindDirection,
   timeStep |-> 20]

\* a DescentInput whose clock starts again at zero
descentInputFromZero(ti, ar) ==
  [method |-> ti.recovery.method,
   startPosition |-> ar.apogee.position,
   startVelocity |-> [x |-> 0, y |-> 0, z |-> -10],
   startTime |-> 0,
   groundLevel |-> ti.launchSite.elevation,
   wind |-> [speed |-> ti.weather.surfaceWindSpeed,
             direction |-> ti.weather.surfaceWindDirection],
   timeStep |-> 50]

\* the DescentInput calculateTrajectory builds from the ascent result
\* (timeStep left to its default)
descentInputOf(ti, ar) ==
  [method |-> ti.recovery.method,
   startPosition |-> ar.apogee.position,
   startVelocity |-> [x |-> 0, y |-> 0, z |-> -10],
   startTime |-> ar.apogee.time,
   groundLevel |-> ti.launchSite.elevation,
   wind |-> [speed |-> ti.weather.surfaceWindSpeed,
             direction |-> ti.weather.surfaceWindDirection],
   timeStep |-> 50]

\* calculateTrajectory is entered with one of the inputs and calls
\* calculateAscent
TrajectoryInit ==
  /\ trajectoryInput \in TrajectoryInputs
  /\ AscentBegin(ascentInputOf(TrajectoryInputTable[trajectoryInput]))

\* calculateAscent has returned: calculateDescent is entered
DescentCall ==
  /\ pc = "ascentDone"
  /\ trajectoryInput # NULL
  /\ LET di == descentInputOf(TrajectoryInputTable[trajectoryInput], ascentResult)
     IN /\ input' = di
        /\ x' = di.startPosition.x /\ y' = di.startPosition.y /\ z' = di.startPosition.z
        /\ vx' = di.startVelocity.x /\ vy' = di.startVelocity.y /\ vz' = di.startVelocity.z
        /\ t' = di.startTime
  /\ iteration' = 0
  /\ trajectoryPoints' = <<>>
  /\ totalDescentRate' = 0
  /\ descentSamples' = 0
  /\ pc' = "descent"
  /\ UNCHANGED <<result, flightVars, telemetryVars, missionVars, windVars, instanceVars, ellipseVars>>

\* calculateDescent has returned: the points are joined and the flight
\* statistics filled in
Assemble ==
  /\ pc = "done"
  /\ trajectoryInput # NULL
  /\ trajectory' =
       [trajectoryPoints |-> ascentResult.trajectoryPoints \o result.trajectoryPoints,
        stats |-> [maxAltitude |-> ascentResult.apogee.altitude,
                   apogeeTime |-> ascentResult.apogee.time,
                   totalFlightTime |-> result.landing.time,
                   maxVelocity |-> ascentResult.maxVelocity,
                   landingVelocity |-> result.landing.velocity]]
  /\ pc' = "assembled"
  /\ UNCHANGED <<input, x, y, z, vx, vy, vz, t, iteration, trajectoryPoints,
                 totalDescentRate, descentSamples, result,
                 ascentInput, mass, maxVelocity, burnoutAltitude, burnoutVelocity,
                 ascentResult, trajectoryInput, telemetryVars, missionVars, windVars, instanceVars, ellipseVars>>

\* ========================================================= mission store
\* The parameter objects of the store, each with the fields tried here, and
\* the values tried for each field (the first is the default's).
DEFAULT_LAUNCH_SITE == [elevation |-> 40, launchAngle |-> 85]
DEFAULT_RECOVERY_PARAMS == [method |-> "parachute"]
DEFAULT_WEATHER_DATA == [surfaceWindSpeed |-> 0]

\* the default rocket, by the two fields the store's forms are tried on
defaultRocket ==
  [dryMass |-> DEFAULT_ROCKET_PARAMS.dryMass,
   motorTotalImpulse |-> DEFAULT_ROCKET_PARAMS.motorTotalImpulse]

LaunchSiteValues == [elevation |-> {40, 100}, launchAngle |-> {85, 90}]
RocketValues == [dryMass |-> {50000, 80000}, motorTotalImpulse |-> {2500, 5000}]
RecoveryValues == [method |-> {"parachute", "streamer"}]
WeatherValues == [surfaceWindSpeed |-> {0, 3}]

\* Partial<T>: any subset of the fields, each with one of its values
Partial(values) ==
  UNION {{part \in [fields -> UNION {values[f] : f \in DOMAIN values}] :
            \A f \in fields : part[f] \in values[f]} :
         fields \in SUBSET DOMAIN values}

\* { ...object, ...part }
merge(object, part) ==
  [f \in DOMAIN object |-> IF f \in DOMAIN part THEN part[f] ELSE object[f]]

\* the parameter objects runSimulation passes to calculateTrajectory
StoreParams == <<rocketParams, recoveryParams, storeLaunchSite, weatherData>>

\* the result calculateTrajectory returns for the parameters, as a reference
\* to one of TrajectoryTable
calculateTrajectoryRef(params) == IF params[2].method = "parachute" THEN 1 ELSE 2

\* the store as created
MissionInit ==
  /\ storeLaunchSite = DEFAULT_LAUNCH_SITE
  /\ rocketParams = defaultRocket
  /\ recoveryParams = DEFAULT_RECOVERY_PARAMS
  /\ weatherData = DEFAULT_WEATHER_DATA
  /\ viewMode = "setup"
  /\ isCalculating = FALSE
  /\ calculationError = NULL
  /\ computedFrom = <<>>

\* what a store action leaves alone outside the store
StoreFrame ==
  UNCHANGED <<svcVars, envVars, telemetryStatus, telemetryHistory, handles, obsVars, runVars,
              descentVars, flightVars, windVars, instanceVars, ellipseVars>>

setLaunchSite ==
  \E site \in Partial(LaunchSiteValues) :
    /\ storeLaunchSite' = merge(storeLaunchSite, site)
    /\ storeTrajectoryResult' = NULL
    /\ UNCHANGED <<rocketParams, recoveryParams, weatherData, viewMode, isCalculating,
                   calculationError, computedFrom>>
    /\ StoreFrame

setRocketParams ==
  \E params \in Partial(RocketValues) :
    /\ rocketParams' = merge(rocketParams, params)
    /\ storeTrajectoryResult' = NULL
    /\ UNCHANGED <<storeLaunchSite, recoveryParams, weatherData, viewMode, isCalculating,
                   calculationError, computedFrom>>
    /\ StoreFrame

setRecoveryParams ==
  \E params \in Partial(RecoveryValues) :
    /\ recoveryParams' = merge(recoveryParams, params)
    /\ storeTrajectoryResult' = NULL
    /\ UNCHANGED <<storeLaunchSite, rocketParams, weatherData, viewMode, isCalculating,
                   calculationError, computedFrom>>
    /\ StoreFrame

\* setWeatherData that keeps the result computed before
setWeatherDataKeepsResult ==
  \E data \in Partial(WeatherValues) :
    /\ weatherData' = merge(weatherData, data)
    /\ UNCHANGED <<storeTrajectoryResult, storeLaunchSite, rocketParams, recoveryParams,
                   viewMode, isCalculating, calculationError, computedFrom>>
    /\ StoreFrame

setWeatherData ==
  \E data \in Partial(WeatherValues) :
    /\ weatherData' = merge(weatherData, data)
    /\ storeTrajectoryResult' = NULL
    /\ UNCHANGED <<storeLaunchSite, rocketParams, recoveryParams, viewMode, isCalculating,
                   calculationError, computedFrom>>
    /\ StoreFrame

resetToDefaults ==
  /\ storeLaunchSite' = DEFAULT_LAUNCH_SITE
  /\ rocketParams' = defaultRocket
  /\ recoveryParams' = DEFAULT_RECOVERY_PARAMS
  /\ weatherData' = DEFAULT_WEATHER_DATA
  /\ storeTrajectoryResult' = NULL
  /\ calculationError' = NULL
  /\ UNCHANGED <<viewMode, isCalculating, computedFrom>>
  /\ StoreFrame

\* runSimulation: calculateTrajectory on the parameters read at entry; its
\* result is stored, or the error message when it throws
runSimulation ==
  \E thrown \in BOOLEAN :
    LET state == StoreParams
    IN /\ IF thrown
          THEN /\ calculationError' = 1
               /\ UNCHANGED <<storeTrajectoryResult, viewMode, computedFrom>>
          ELSE /\ storeTrajectoryResult' = calculateTrajectoryRef(state)
               /\ computedFrom' = state
               /\ viewMode' = "simulation"
               /\ calculationError' = NULL
       /\ isCalculating' = FALSE
       /\ UNCHANGED <<storeLaunchSite, rocketParams, recoveryParams, weatherData>>
       /\ StoreFrame

\* ========================================================= wind profile
\* createLayeredWindProfile and the getWindAtAltitude of the profile it
\* returns.  Altitudes in m, directions in degrees; an interpolated value is
\* kept as the fraction <<numerator, denominator>>.

\* wind directions tried, on both sides of north and of south
WindDirections == {0, 10, 170, 190, 350}

\* altitudes of the layers tried (the weather service gives 80 m and 120 m)
LayerAltitudes == {0, 80, 120}

\* altitudes asked for
QueryAltitudes == {0, 40, 80, 90, 100, 120, 200}

WindLayer(a, d) == [altitude |-> a, windSpeed |-> 5 + a \div 40, windDirection |-> d]

\* the windLayers arrays tried: none, one layer, two and three layers in any
\* order and also at one altitude
WindLayerArrays ==
  {<<>>}
  \cup {<<WindLayer(a, d)>> : a \in LayerAltitudes, d \in WindDirections}
  \cup {<<WindLayer(a1, d1), WindLayer(a2, d2)>> :
          a1 \in LayerAltitudes, d1 \in {10, 350}, a2 \in LayerAltitudes, d2 \in {170, 350}}
  \cup {<<WindLayer(a1, 10), WindLayer(a2, 170), WindLayer(a3, 350)>> :
          a1 \in LayerAltitudes, a2 \in LayerAltitudes, a3 \in LayerAltitudes}

\* no wind profile made
WindIdle ==
  /\ surfaceWind = [speed |-> 0, direction |-> 0]
  /\ windLayers = <<>>
  /\ windCalls = 0
  /\ layers = <<>>
  /\ windAltitude = -1
  /\ windResult = [speed |-> <<0, 1>>, direction |-> <<0, 1>>]

\* a caller holds a weather object
WindInit ==
  /\ surfaceWind \in {[speed |-> 5, direction |-> d] : d \in WindDirections}
  /\ windLayers \in WindLayerArrays
  /\ windCalls = 0
  /\ layers = <<>>
  /\ windAltitude = -1
  /\ windResult = [speed |-> <<0, 1>>, direction |-> <<0, 1>>]

RECURSIVE insertByAltitude(_, _)
\* sorted with the layer put after the layers that are not above it
insertByAltitude(sorted, layer) ==
  IF sorted = <<>> THEN <<layer>>
  ELSE IF sorted[Len(sorted)].altitude <= layer.altitude THEN Append(sorted, layer)
  ELSE Append(insertByAltitude(SubSeq(sorted, 1, Len(sorted) - 1), layer), sorted[Len(sorted)])

RECURSIVE sortByAltitude(_)
\* Array.prototype.sort((a, b) => a.altitude - b.altitude), which is stable
sortByAltitude(array) ==
  IF array = <<>> THEN <<>>
  ELSE insertByAltitude(sortByAltitude(SubSeq(array, 1, Len(array) - 1)), array[Len(array)])

\* the layers made by putting the surface layer into the caller's array and
\* sorting that array
profileLayersInPlace(surface, array) ==
  LET sorted == sortByAltitude(<<[altitude |-> 0, windSpeed |-> surface.speed,
                                  windDirection |-> surface.direction]>> \o array)
  IN [layers |-> sorted, windLayers |-> sorted]

\* the layers array of createLayeredWindProfile, a new array, and the
\* caller's array after the call
profileLayers(surface, array) ==
  IF Len(array) = 0
  THEN [layers |-> <<>>, windLayers |-> array]
  ELSE [layers |-> sortByAltitude(<<[altitude |-> 0, windSpeed |-> surface.speed,
                                     windDirection |-> surface.direction]>> \o array),
        windLayers |-> array]

\* the remainder operator of JavaScript, for a positive divisor
jsRemainder(a, b) == IF a >= 0 THEN a % b ELSE -((-a) % b)

\* the difference of the directions as it is, whatever its size
directionDifferenceRaw(lowerDirection, upperDirection) == upperDirection - lowerDirection

\* dirDiff after the two corrections by 360
directionDifference(lowerDirection, upperDirection) ==
  LET dirDiff == upperDirection - lowerDirection
      down == IF dirDiff > 180 THEN dirDiff - 360 ELSE dirDiff
  IN IF down < -180 THEN down + 360 ELSE down

\* the interpolation of getWindAtAltitude between lower and upper; a zero
\* altitude difference gives NaN, kept as <<0, 0>>
interpolateWind(lower, upper, altitude) ==
  LET den == upper.altitude - lower.altitude
      num == altitude - lower.altitude
      dirDiff == directionDifference(lower.windDirection, upper.windDirection)
  IN IF den = 0
     THEN [speed |-> <<0, 0>>, direction |-> <<0, 0>>]
     ELSE [speed |-> <<lower.windSpeed * den + num * (upper.windSpeed - lower.windSpeed), den>>,
           direction |-> <<jsRemainder(lower.windDirection * den + num * dirDiff + 360 * den,
                                       360 * den), den>>]

RECURSIVE findLayer(_, _, _)
\* the for loop of getWindAtAltitude from index i (0-based): the first pair
\* of layers around the altitude, -1 when there is none
findLayer(ls, i, altitude) ==
  IF i >= Len(ls) - 1 THEN -1
  ELSE IF altitude >= ls[i + 1].altitude /\ altitude <= ls[i + 2].altitude THEN i
  ELSE findLayer(ls, i + 1, altitude)

\* getWindAtAltitude going to its loop without the two tests before it
getWindAtAltitudeLoopOnly(ls, surface, altitude) ==
  IF Len(ls) = 0
  THEN [speed |-> <<surface.speed, 1>>, direction |-> <<surface.direction, 1>>]
  ELSE LET i == findLayer(ls, 0, altitude)
       IN IF i < 0
          THEN [speed |-> <<surface.speed, 1>>, direction |-> <<surface.direction, 1>>]
          ELSE interpolateWind(ls[i + 1], ls[i + 2], altitude)

\* getWindAtAltitude of the profile whose layers are ls
getWindAtAltitude(ls, surface, altitude) ==
  IF Len(ls) = 0
  THEN [speed |-> <<surface.speed, 1>>, direction |-> <<surface.direction, 1>>]
  ELSE IF altitude <= ls[1].altitude
  THEN [speed |-> <<ls[1].windSpeed, 1>>, direction |-> <<ls[1].windDirection, 1>>]
  ELSE IF altitude >= ls[Len(ls)].altitude
  THEN [speed |-> <<ls[Len(ls)].windSpeed, 1>>, direction |-> <<ls[Len(ls)].windDirection, 1>>]
  ELSE LET i == findLayer(ls, 0, altitude)
       IN IF i < 0
          THEN [speed |-> <<surface.speed, 1>>, direction |-> <<surface.direction, 1>>]
          ELSE interpolateWind(ls[i + 1], ls[i + 2], altitude)

\* what a wind action leaves alone
WindFrame ==
  UNCHANGED <<telemetryVars, descentVars, flightVars, missionVars, instanceVars, ellipseVars>>

\* createWindProfileFromWeather(weather), as calculateTrajectory calls it
createWindProfileFromWeather ==
  /\ LET made == profileLayers(surfaceWind, windLayers)
     IN /\ layers' = made.layers
        /\ windLayers' = made.windLayers
  /\ windCalls' = Min(windCalls + 1, MaxWindCalls)
  /\ windAltitude' = -1
  /\ windResult' = [speed |-> <<0, 1>>, direction |-> <<0, 1>>]
  /\ UNCHANGED surfaceWind
  /\ WindFrame

\* profile.getWindAtAltitude(altitude)
GetWindAtAltitude ==
  \E altitude \in QueryAltitudes :
    /\ windCalls > 0
    /\ windAltitude' = altitude
    /\ windResult' = getWindAtAltitude(layers, surfaceWind, altitude)
    /\ UNCHANGED <<surfaceWind, windLayers, windCalls, layers>>
    /\ WindFrame

\* ============================================ several service instances
\* The config field of MockTelemetryService is initialised with the module's
\* DEFAULT_CONFIG object itself, and the methods assign to its fields.

\* the instances constructed
Instances == {1, 2}

\* the reference to the module-level DEFAULT_CONFIG object
DefaultConfigRef == 1

\* the field initialisers of the class, run for each instance
InstancesInit ==
  /\ configObjects = [r \in {DefaultConfigRef} |-> DEFAULT_CONFIG]
  /\ services = [i \in Instances |-> [status |-> "idle", config |-> DefaultConfigRef,
                                      interval |-> 0]]
  /\ instanceCall = <<"new", 0, 0>>

InstancesFrame ==
  UNCHANGED <<telemetryVars, descentVars, flightVars, missionVars, windVars, ellipseVars>>

\* this.config of instance i
configOf(objects, svcs, i) == objects[svcs[i].config]

\* the period startEmitting gives the timer of an instance
intervalOf(cfg) == (cfg.updateInterval * SpeedScale) \div cfg.playbackSpeed

\* start(trajectoryResult, launchSite, mode) on instance i
InstanceStart(i) ==
  \E mode \in TelemetryModes :
    /\ IF services[i].status = "running"
       THEN UNCHANGED <<configObjects, services>>
       ELSE LET ref == services[i].config
                objects == [configObjects EXCEPT ![ref].mode = mode]
            IN /\ configObjects' = objects
               /\ services' = [services EXCEPT ![i].status = "running",
                                               ![i].interval = intervalOf(objects[ref])]
    /\ instanceCall' = <<"start", i, mode>>
    /\ InstancesFrame

\* stop() on instance i
InstanceStop(i) ==
  /\ services' = [services EXCEPT ![i].status = "idle", ![i].interval = 0]
  /\ instanceCall' = <<"stop", i, 0>>
  /\ UNCHANGED configObjects
  /\ InstancesFrame

\* setPlaybackSpeed(speed) on instance i
InstanceSetPlaybackSpeed(i) ==
  \E speed \in SpeedInputs :
    /\ IF speedRejected(speed)
       THEN UNCHANGED <<configObjects, services>>
       ELSE LET ref == services[i].config
                objects == [configObjects EXCEPT ![ref].playbackSpeed = speed]
            IN /\ configObjects' = objects
               /\ services' = IF services[i].status = "running"
                              THEN [services EXCEPT ![i].interval = intervalOf(objects[ref])]
                              ELSE services
    /\ instanceCall' = <<"setPlaybackSpeed", i, speed>>
    /\ InstancesFrame

\* setMode(mode) on instance i
InstanceSetMode(i) ==
  \E mode \in TelemetryModes :
    /\ configObjects' = [configObjects EXCEPT ![services[i].config].mode = mode]
    /\ instanceCall' = <<"setMode", i, mode>>
    /\ UNCHANGED services
    /\ InstancesFrame

\* ================================================== uncertainty ellipse
\* calculateUncertaintyEllipse, with lengths in cm and angles in degrees

\* DEFAULT_WIND_UNCERTAINTY: 25 % of the wind speed, 15 degrees of direction
DEFAULT_WIND_UNCERTAINTY == [speedUncertainty |-> 25, directionUncertainty |-> 15]

\* the drift distances tried: every metre from 0 m to 60 m
DriftDistances == {100 * m : m \in 0..60}

\* Math.sin(degrees * Math.PI / 180), in millionths
sinMillionths(degrees) == CASE degrees = 0 -> 0 [] degrees = 15 -> 258819 [] degrees = 90 -> 1000000

Max(a, b) == IF a >= b THEN a ELSE b

calculateUncertaintyEllipse(drift, windDirection, uncertainty) ==
  LET semiMajor == (drift * uncertainty.speedUncertainty) \div 100
      semiMinor == (drift * sinMillionths(uncertainty.directionUncertainty)) \div 1000000
      rotation == (windDirection + 180) % 360
  IN [semiMajor |-> Max(semiMajor, 1000), semiMinor |-> Max(semiMinor, 500),
      rotation |-> rotation]

\* no call of calculateUncertaintyEllipse
EllipseIdle ==
  /\ nominalDrift = 0
  /\ ellipseWindDirection = 0
  /\ ellipseReturned = FALSE
  /\ ellipse = [semiMajor |-> 0, semiMinor |-> 0, rotation |-> 0]

\* calculateUncertaintyEllipse is called with a drift and a wind direction
EllipseInit ==
  /\ nominalDrift \in DriftDistances
  /\ ellipseWindDirection \in WindDirections
  /\ ellipseReturned = FALSE
  /\ ellipse = [semiMajor |-> 0, semiMinor |-> 0, rotation |-> 0]

\* the call returns, the uncertainty left to its default
CalculateUncertaintyEllipse ==
  /\ ~ellipseReturned
  /\ ellipse' = calculateUncertaintyEllipse(nominalDrift, ellipseWindDirection,
                                            DEFAULT_WIND_UNCERTAINTY)
  /\ ellipseReturned' = TRUE
  /\ UNCHANGED <<nominalDrift, ellipseWindDirection>>
  /\ UNCHANGED <<telemetryVars, descentVars, flightVars, missionVars, windVars, instanceVars>>

\* ======================================================== specifications
Init == TelemetryInit /\ DescentIdle /\ FlightIdle /\ MissionInit /\ WindIdle /\ InstancesInit /\ EllipseIdle

\* the playback service driven through its methods and the timer
Next ==
  \/ (Start /\ UNCHANGED <<descentVars, restVars>>)
  \/ (Stop /\ UNCHANGED <<descentVars, restVars>>)
  \/ (Pause /\ UNCHANGED <<descentVars, restVars>>)
  \/ (Resume /\ UNCHANGED <<descentVars, restVars>>)
  \/ (SetPlaybackSpeed /\ UNCHANGED <<descentVars, restVars>>)
  \/ (SetMode /\ UNCHANGED <<descentVars, restVars>>)
  \/ (Tick /\ UNCHANGED <<descentVars, restVars>>)
  \/ (AdvanceClock /\ UNCHANGED <<descentVars, restVars>>)

Spec == Init /\ [][Next]_vars

\* the playback service started through the hook from the mission store,
\* with the hook's subscriber
NextHook ==
  \/ (HookMount /\ UNCHANGED <<descentVars, restVars>>)
  \/ (RunSimulation /\ UNCHANGED <<descentVars, restVars>>)
  \/ (SetParams /\ UNCHANGED <<descentVars, restVars>>)
  \/ (HookStartWith({"gps"}) /\ UNCHANGED <<descentVars, restVars>>)
  \/ (Stop /\ UNCHANGED <<descentVars, restVars>>)
  \/ (Pause /\ UNCHANGED <<descentVars, restVars>>)
  \/ (Resume /\ UNCHANGED <<descentVars, restVars>>)
  \/ (SetPlaybackSpeed /\ UNCHANGED <<descentVars, restVars>>)
  \/ (Tick /\ UNCHANGED <<descentVars, restVars>>)
  \/ (AdvanceClock /\ UNCHANGED <<descentVars, restVars>>)

SpecHook == Init /\ [][NextHook]_vars

\* subscribers coming and going around a playback
NextSubs ==
  \/ (OnTelemetry /\ UNCHANGED <<descentVars, restVars>>)
  \/ (Unsubscribe /\ UNCHANGED <<descentVars, restVars>>)
  \/ (StartWith({1}, {"gps"}) /\ UNCHANGED <<descentVars, restVars>>)
  \/ (Tick /\ UNCHANGED <<descentVars, restVars>>)

SpecSubs == Init /\ [][NextSubs]_vars

\* a playback that is started when the clock reads 0, then paused, resumed
\* and has its speed changed, but is never stopped.  The clock of this
\* specification runs on for the longest playback (the longest trajectory
\* at the lowest speed) and for the time a run may spend paused.
LongestPlayback ==
  LET lengths == {(getTotalTime(tr) + speed - 1) \div speed :
                    tr \in TrajectoryResults, speed \in PlaybackSpeeds}
  IN CHOOSE n \in lengths : \A m \in lengths : m <= n

LiveHorizon == MaxPaused + LongestPlayback

StartLive ==
  /\ now = 0
  /\ StartWith(TrajectoryResults, {"gps"})

AdvanceClockLive ==
  /\ now < LiveHorizon
  /\ status = "paused" => totalPaused + (now - runPausedAt) < MaxPaused
  /\ now' = now + 1
  /\ Obs(<<"none", 0>>)
  /\ UNCHANGED <<svcVars, timers, storeVars, handles, runVars>>

NextLive ==
  \/ (StartLive /\ UNCHANGED <<descentVars, restVars>>)
  \/ (Pause /\ UNCHANGED <<descentVars, restVars>>)
  \/ (Resume /\ UNCHANGED <<descentVars, restVars>>)
  \/ (SetPlaybackSpeed /\ UNCHANGED <<descentVars, restVars>>)
  \/ (Tick /\ UNCHANGED <<descentVars, restVars>>)
  \/ (AdvanceClockLive /\ UNCHANGED <<descentVars, restVars>>)

\* the wall clock advances and the live timer keeps firing (also when the
\* playback is paused and resumed, or the timer torn down and recreated,
\* again and again), and a paused playback is resumed
SpecLive ==
  /\ Init
  /\ [][NextLive]_vars
  /\ SF_vars(AdvanceClockLive /\ UNCHANGED <<descentVars, restVars>>)
  /\ SF_vars(Tick /\ UNCHANGED <<descentVars, restVars>>)
  /\ WF_vars(Resume /\ UNCHANGED <<descentVars, restVars>>)

\* two service instances, each driven through its methods
NextInstances ==
  \E i \in Instances :
    \/ InstanceStart(i)
    \/ InstanceStop(i)
    \/ InstanceSetPlaybackSpeed(i)
    \/ InstanceSetMode(i)

SpecInstances == Init /\ [][NextInstances]_vars

\* calculateUncertaintyEllipse called on each drift and wind direction
InitEllipse ==
  TelemetryInit /\ DescentIdle /\ FlightIdle /\ MissionInit /\ WindIdle /\ InstancesInit
    /\ EllipseInit

NextEllipse == CalculateUncertaintyEllipse

SpecEllipse == InitEllipse /\ [][NextEllipse]_vars

\* calculateDescent run on each of DescentInputs
InitDescent ==
  TelemetryInit /\ DescentInit /\ FlightIdle /\ MissionInit /\ WindIdle /\ InstancesInit
    /\ EllipseIdle

NextDescent == DescentStep \/ DescentFinish

SpecDescent == InitDescent /\ [][NextDescent]_vars

\* calculateAscent, calculateDescent and calculateTrajectory, each run on
\* each of its inputs
InitFlight ==
  /\ TelemetryInit
  /\ MissionInit
  /\ WindIdle
  /\ InstancesInit
  /\ EllipseIdle
  /\ \/ AscentInit
     \/ (DescentInit /\ FlightIdle)
     \/ TrajectoryInit

NextFlight ==
  \/ AscentStep
  \/ AscentFinish
  \/ DescentCall
  \/ DescentStep
  \/ DescentFinish
  \/ Assemble

SpecFlight == InitFlight /\ [][NextFlight]_vars

\* the mission store driven through its parameter setters, resetToDefaults
\* and runSimulation
NextStore ==
  \/ setLaunchSite
  \/ setRocketParams
  \/ setRecoveryParams
  \/ setWeatherData
  \/ resetToDefaults
  \/ runSimulation

SpecStore == Init /\ [][NextStore]_vars

\* wind profiles made from a caller's weather and asked for the wind
InitWind ==
  TelemetryInit /\ DescentIdle /\ FlightIdle /\ MissionInit /\ WindInit /\ InstancesInit /\ EllipseIdle

NextWind == createWindProfileFromWeather \/ GetWindAtAltitude

SpecWind == InitWind /\ [][NextWind]_vars

\* ================================================================ claims
\* the last point of the loaded trajectory
LastPoint ==
  LET points == TrajectoryTable[trajectoryResult].trajectoryPoints IN points[Len(points)]

\* the last step was a tick that computed elapsed >= totalFlightTime
TickCompleted ==
  /\ lastCall[1] = "tick"
  /\ trajectoryResult # NULL
  /\ tickElapsed >= getTotalTime(trajectoryResult)

\* C1: at most one periodic timer is live, whatever calls and ticks came
\* before; the timer the instance holds is the live one.
C1_OneTimer ==
  /\ Cardinality(DOMAIN timers) <= 1
  /\ DOMAIN timers \subseteq {intervalId}

\* setPlaybackSpeed while running has torn down and recreated the timer
C1_Witness ==
  /\ lastCall[1] = "setPlaybackSpeed"
  /\ lastCall[2] > 0
  /\ status = "running"
  /\ DOMAIN timers = {intervalId}
  /\ timers[intervalId] = (UpdateInterval * SpeedScale) \div config.playbackSpeed
  /\ speedChanged

\* C2: start called while status is 'running' changes neither the loaded
\* trajectory, the launch site, the mode, the scan cursor, currentTime, the
\* wall-clock anchor, the status nor the timer.
C2_StartWhileRunning ==
  [][(lastCall'[1] = "start" /\ status = "running")
       => UNCHANGED <<trajectoryResult, launchSite, config, currentIndex, currentTime,
                      startTimestamp, status, intervalId, timers>>]_vars

\* start was called during a run that is under way: an effective start
\* leaves currentTime at 0
C2_Witness ==
  /\ lastCall[1] = "start"
  /\ status = "running"
  /\ currentTime > 0
  /\ now > startTimestamp

\* C3: at constant playback speed every tick computes
\* elapsed = speed * (wall clock since start - total time spent paused).
C3_PausedTimeExcluded ==
  (lastCall[1] = "tick" /\ trajectoryResult # NULL /\ ~speedChanged)
    => tickElapsed = config.playbackSpeed * ((now - runStartedAt) - totalPaused)

\* a tick after a pause that lasted some time
C3_Witness ==
  /\ lastCall[1] = "tick"
  /\ ~speedChanged
  /\ totalPaused > 0
  /\ tickElapsed > 0
  /\ tickElapsed < getTotalTime(trajectoryResult)

\* C4: currentTime is within [0, totalFlightTime] of the loaded trajectory in
\* every state, and so are the values a subscriber reads while it is called.
C4_CurrentTimeInRange ==
  /\ 0 <= currentTime
  /\ currentTime <= getTotalTime(trajectoryResult)
  /\ \A i \in 1..Len(delivered) :
       /\ 0 <= delivered[i].currentTime
       /\ delivered[i].currentTime <= delivered[i].totalTime

\* a subscriber is called by a tick whose elapsed time is past the end
C4_Witness ==
  /\ TickCompleted
  /\ tickElapsed > getTotalTime(trajectoryResult)
  /\ Len(delivered) = 1
  /\ delivered[1].currentTime = getTotalTime(trajectoryResult)

\* C5 as claimed: a tick that computes elapsed >= totalFlightTime emits the
\* last trajectory point exactly once, sets status 'completed' and clears the
\* timer; nothing is emitted afterwards until the next start.
C5_Original ==
  [][/\ TickCompleted' => /\ status' = "completed"
                          /\ intervalId' = NULL
                          /\ DOMAIN timers' = {}
                          /\ Len(emitted') = 1
                          /\ emitted'[1].point = LastPoint'
     /\ status = "completed" => emitted' = <<>>]_vars

\* C5 as amended: the same when the mode is not 'none'; in mode 'none' the
\* completing tick sets the status and clears the timer and emits nothing.
C5_Completion ==
  [][/\ TickCompleted' => /\ status' = "completed"
                          /\ intervalId' = NULL
                          /\ DOMAIN timers' = {}
                          /\ IF config'.mode # "none"
                             THEN Len(emitted') = 1 /\ emitted'[1].point = LastPoint'
                             ELSE emitted' = <<>>
     /\ status = "completed" => emitted' = <<>>]_vars

\* the completing tick has emitted the last point
C5_Witness ==
  /\ TickCompleted
  /\ status = "completed"
  /\ config.mode # "none"
  /\ Len(emitted) = 1
  /\ emitted[1].point = LastPoint
  /\ DOMAIN timers = {}

\* C6: stop leaves status 'idle', no live timer, cursor 0 and currentTime 0,
\* and no sample is emitted while the status is 'idle'.
C6_Stop ==
  [][/\ lastCall'[1] = "stop" => /\ status' = "idle"
                                 /\ intervalId' = NULL
                                 /\ DOMAIN timers' = {}
                                 /\ currentIndex' = 0
                                 /\ currentTime' = 0
     /\ status = "idle" => emitted' = <<>>]_vars

\* stop was called some time after a playback was started
C6_Witness ==
  /\ lastCall[1] = "stop"
  /\ status = "idle"
  /\ trajectoryResult # NULL
  /\ now > startTimestamp
  /\ DOMAIN timers = {}

\* a misuse call: resume when not paused, pause when not running, a speed
\* that is not positive, the hook's start without a computed trajectory
Misuse ==
  \/ (lastCall'[1] = "resume" /\ status # "paused")
  \/ (lastCall'[1] = "pause" /\ status # "running")
  \/ (lastCall'[1] = "setPlaybackSpeed" /\ lastCall'[2] <= 0)
  \/ (lastCall'[1] = "hookStart" /\ storeTrajectoryResult = NULL)

\* C7: a misuse call leaves status, cursor, currentTime, anchor, speed and
\* timer as they were.
C7_MisuseNoOp ==
  [][Misuse => UNCHANGED <<status, currentIndex, currentTime, startTimestamp, pausedAt,
                           config, intervalId, timers, trajectoryResult, launchSite>>]_vars

\* the hook's start was called without a trajectory while a playback is
\* paused part-way
C7_Witness ==
  /\ lastCall[1] = "hookStart"
  /\ storeTrajectoryResult = NULL
  /\ status = "paused"
  /\ currentTime > 0

\* C8: a sample that is emitted reaches every callback that was registered
\* when the emission began and whose unsubscribe closure was not called
\* during the delivery.
C8_AllDelivered ==
  [][emitted' # <<>>
       => \A c \in Range(callbacks) :
            c \notin unsubscribedDuring'
              => \E i \in 1..Len(delivered') : delivered'[i].cb = c]_vars

\* C9: a second or later call of an unsubscribe closure leaves the
\* subscriber list as it was.
C9_UnsubscribeIdempotent ==
  [][(lastCall'[1] = "unsubscribe" /\ handles[lastCall'[2]].called)
       => callbacks' = callbacks]_vars

\* C10: the last trajectory point and the landing position of
\* calculateDescent have z equal to groundLevel.
C10_LandsAtGroundLevel ==
  pc = "done"
    => /\ result.trajectoryPoints[Len(result.trajectoryPoints)].position.z = input.groundLevel
       /\ result.landing.position.z = input.groundLevel

\* the iteration cap was hit while still aloft
C10_Witness ==
  /\ pc = "done"
  /\ iteration = maxIterations
  /\ z > input.groundLevel
  /\ result.landing.position.z = input.groundLevel

\* the place of a phase tag in the order thrust, coast, descent
phaseRank(ph) == CASE ph = "thrust" -> 1 [] ph = "coast" -> 2 [] ph = "descent" -> 3

\* no point is followed by a point of an earlier phase
PhasesInOrder(points) ==
  \A i \in 1..(Len(points) - 1) : phaseRank(points[i].phase) <= phaseRank(points[i + 1].phase)

\* the times of consecutive points never decrease
TimesInOrder(points) ==
  \A i \in 1..(Len(points) - 1) : points[i].time <= points[i + 1].time

\* C11: in the points calculateTrajectory returns no thrust point follows a
\* coast or descent point and no coast point follows a descent point, and
\* every point calculateDescent returns is tagged 'descent'.
C11_PhaseMonotonic ==
  /\ pc = "assembled" => PhasesInOrder(trajectory.trajectoryPoints)
  /\ pc \in {"done", "assembled"}
       => \A i \in 1..Len(result.trajectoryPoints) :
            result.trajectoryPoints[i].phase = "descent"

\* an assembled trajectory with several points of each phase
C11_Witness ==
  /\ pc = "assembled"
  /\ \A ph \in {"thrust", "coast", "descent"} :
       Cardinality({i \in 1..Len(trajectory.trajectoryPoints) :
                      trajectory.trajectoryPoints[i].phase = ph}) > 1

\* C12: the times of consecutive points are non-decreasing in the points
\* calculateAscent and calculateDescent accumulate and return and in the
\* joined points calculateTrajectory returns, for each time step tried.
C12_TimesNonDecreasing ==
  /\ pc \in {"ascent", "apogee", "ascentDone", "descent", "done"} => TimesInOrder(trajectoryPoints)
  /\ pc = "ascentDone" => TimesInOrder(ascentResult.trajectoryPoints)
  /\ pc = "done" => TimesInOrder(result.trajectoryPoints)
  /\ pc = "assembled" => TimesInOrder(trajectory.trajectoryPoints)

\* an assembled trajectory in which two consecutive points share a time
\* stamp and the descent points come later than the ascent points
C12_Witness ==
  /\ pc = "assembled"
  /\ \E i \in 1..(Len(trajectory.trajectoryPoints) - 1) :
       trajectory.trajectoryPoints[i].time = trajectory.trajectoryPoints[i + 1].time
  /\ Len(result.trajectoryPoints) > 1
  /\ result.trajectoryPoints[1].time > 0

\* C13: in every trajectory calculateTrajectory returns, the time of the
\* first point tagged 'descent' equals stats.apogeeTime.
C13_DescentStartsAtApogee ==
  pc = "assembled"
    => LET points == trajectory.trajectoryPoints
           first == CHOOSE i \in 1..Len(points) :
                      /\ points[i].phase = "descent"
                      /\ \A j \in 1..(i - 1) : points[j].phase # "descent"
       IN points[first].time = trajectory.stats.apogeeTime

\* C14: every pass of either integrator's loop counts one step and the count
\* never exceeds 10,000; when the loop is over the result holds the points
\* accumulated so far followed by the final point.
C14_IterationCap ==
  [][/\ iteration' <= maxIterations
     /\ (pc = "ascent" /\ pc' = "ascent") => iteration' = iteration + 1
     /\ (pc = "descent" /\ pc' = "descent") => iteration' = iteration + 1
     /\ (pc \in {"ascent", "apogee"} /\ pc' = "ascentDone")
          => /\ Len(ascentResult'.trajectoryPoints) = Len(trajectoryPoints) + 1
             /\ SubSeq(ascentResult'.trajectoryPoints, 1, Len(trajectoryPoints)) = trajectoryPoints
     /\ (pc = "descent" /\ pc' = "done")
          => /\ Len(result'.trajectoryPoints) = Len(trajectoryPoints) + 1
             /\ SubSeq(result'.trajectoryPoints, 1, Len(trajectoryPoints)) = trajectoryPoints]_vars

\* calculateAscent has returned after 10,000 steps without having met the
\* apogee condition, with the points of the whole run
C14_Witness ==
  /\ pc = "ascentDone"
  /\ iteration = maxIterations
  /\ ~apogeeReached(vz, z, ascentInput.launchElevation)
  /\ Len(ascentResult.trajectoryPoints) > 100

\* C15: a trajectoryResult that is not null was computed from exactly the
\* parameter objects the store holds, and a step that changes a parameter
\* leaves trajectoryResult null.
C15_ResultMatchesParams ==
  [][/\ storeTrajectoryResult' # NULL
          => /\ computedFrom' = StoreParams'
             /\ storeTrajectoryResult' = calculateTrajectoryRef(StoreParams')
     /\ StoreParams' # StoreParams => storeTrajectoryResult' = NULL]_vars

\* a result is held that was computed after the weather, the recovery
\* method and one field of the launch site were changed from the defaults
C15_Witness ==
  /\ storeTrajectoryResult # NULL
  /\ computedFrom = StoreParams
  /\ weatherData # DEFAULT_WEATHER_DATA
  /\ recoveryParams # DEFAULT_RECOVERY_PARAMS
  /\ storeLaunchSite.elevation # DEFAULT_LAUNCH_SITE.elevation
  /\ storeLaunchSite.launchAngle = DEFAULT_LAUNCH_SITE.launchAngle

\* C16: a call that makes the wind profile for calculateTrajectory leaves the
\* caller's weather (surface wind and windLayers array) as it was and, called
\* again on that weather, makes the profile the call before made; asking a
\* profile for the wind changes neither the weather nor the profile.
C16_PureWindProfile ==
  [][/\ windCalls' # windCalls \/ (windCalls = MaxWindCalls /\ windAltitude' = -1)
          => /\ windLayers' = windLayers
             /\ surfaceWind' = surfaceWind
             /\ windCalls > 0 => layers' = layers
     /\ windAltitude' # -1
          => /\ windLayers' = windLayers
             /\ surfaceWind' = surfaceWind
             /\ layers' = layers]_vars

\* a second profile was made from a windLayers array that is not in
\* altitude order
C16_Witness ==
  /\ windCalls = 2
  /\ Len(windLayers) = 2
  /\ windLayers[1].altitude > windLayers[2].altitude
  /\ Len(layers) = 3
  /\ layers[2] = windLayers[2]
  /\ layers[3] = windLayers[1]

\* the layers of the profile are at altitudes that strictly increase
DistinctAltitudes == \A i \in 1..(Len(layers) - 1) : layers[i].altitude < layers[i + 1].altitude

\* the direction <<n, d>> is in [0, 360) and is d1 turned by num / den of a
\* turn of at most 180 degrees that leads from d1 to d2
OnShorterArc(d1, d2, num, den, direction) ==
  /\ direction[2] > 0
  /\ 0 <= direction[1]
  /\ direction[1] < 360 * direction[2]
  /\ \E turn \in -180..180 :
       /\ (d1 + turn - d2) % 360 = 0
       /\ (direction[1] * den - direction[2] * (d1 * den + num * turn))
            % (360 * den * direction[2]) = 0

\* C17: for two adjacent layers with directions d1 and d2 and an altitude
\* between them, the direction returned is in [0, 360) and is d1 turned by
\* ratio times the shortest signed turn from d1 to d2.
C17_ShorterArc ==
  (windAltitude >= 0 /\ DistinctAltitudes)
    => \A i \in 1..(Len(layers) - 1) :
         (layers[i].altitude <= windAltitude /\ windAltitude <= layers[i + 1].altitude)
           => OnShorterArc(layers[i].windDirection, layers[i + 1].windDirection,
                           windAltitude - layers[i].altitude,
                           layers[i + 1].altitude - layers[i].altitude,
                           windResult.direction)

\* half-way between a layer at 350 degrees and a layer at 10 degrees the
\* direction is 0
C17_Witness ==
  /\ windAltitude = 40
  /\ Len(layers) = 2
  /\ layers[1].windDirection = 350
  /\ layers[2].altitude = 80
  /\ layers[2].windDirection = 10
  /\ windResult.direction[1] = 0
  /\ windResult.direction[2] = 80

\* the last step was a tick that interpolated: it computed an elapsed time
\* short of the total flight time
TickInterpolated ==
  /\ lastCall[1] = "tick"
  /\ trajectoryResult # NULL
  /\ launchSite # NULL
  /\ tickElapsed >= 0
  /\ tickElapsed < getTotalTime(trajectoryResult)

\* C18: when the elapsed time of a tick lies between two consecutive
\* trajectory points p1 and p2, the interpolated point that is emitted has
\* p1 + (p2 - p1) * (elapsed - p1.time) / (p2.time - p1.time) in a component.
C18_InterpolatedBetween ==
  (TickInterpolated /\ emitted # <<>>)
    => LET points == TrajectoryTable[trajectoryResult].trajectoryPoints
           zz == emitted[1].point.z
       IN \A k \in 1..(Len(points) - 1) :
            (points[k].time <= tickElapsed /\ tickElapsed < points[k + 1].time)
              => LET p1 == points[k]
                     p2 == points[k + 1]
                     expected == lerp(p1.z[1], p2.z[1], tickElapsed, p1.time, p2.time)
                 IN zz[1] * expected[2] = expected[1] * zz[2]

\* C19: within one run the elapsed time a tick computes is never less than
\* the elapsed time of the tick before (which currentTime holds, 0 at the
\* start of the run).
C19_ElapsedMonotonic ==
  [][(lastCall'[1] = "tick" /\ tickElapsed' >= 0) => tickElapsed' >= currentTime]_vars

\* C20: when a tick interpolates, the points at the cursor and after it
\* bracket the elapsed time: points[i].time <= elapsed < points[i + 1].time.
C20_CursorBrackets ==
  TickInterpolated
    => LET points == TrajectoryTable[trajectoryResult].trajectoryPoints
       IN /\ currentIndex + 2 <= Len(points)
          /\ points[currentIndex + 1].time <= tickElapsed
          /\ tickElapsed < points[currentIndex + 2].time

\* C21: the ascent loop goes on past a step only if the step does not have
\* vz < 0 and z > launchElevation + 1; it ends below the cap only at a step
\* that has, leaving the state as it is; and the apogee time, altitude and
\* position of the result are the state of the step the loop ended at.
C21_ApogeeStep ==
  [][/\ (pc = "ascent" /\ pc' = "ascent")
          => ~(vz < 0 /\ z > ascentInput.launchElevation + 100)
     /\ (pc = "ascent" /\ pc' = "apogee")
          => /\ vz < 0
             /\ z > ascentInput.launchElevation + 100
             /\ <<x, y, z, vx, vy, vz, t>>' = <<x, y, z, vx, vy, vz, t>>
     /\ (pc # "ascentDone" /\ pc' = "ascentDone")
          => /\ pc = "apogee" \/ iteration = maxIterations
             /\ ascentResult'.apogee
                  = [time |-> t, altitude |-> z - ascentInput.launchElevation,
                     position |-> [x |-> x, y |-> y, z |-> z]]
             /\ <<x, y, z, t>>' = <<x, y, z, t>>]_vars

\* an ascent that ended at an apogee above the pad, before the cap
C21_Witness ==
  /\ pc = "ascentDone"
  /\ iteration < maxIterations
  /\ vz < 0
  /\ z > ascentInput.launchElevation + 100
  /\ ascentResult.apogee.time = t
  /\ ascentResult.apogee.altitude > 10000

\* C22: burnoutAltitude and burnoutVelocity are written at the first step
\* of the ascent whose phase is coast, with the altitude above the pad and
\* the speed of that step, and no other step changes them.
C22_BurnoutOnce ==
  [][(pc = "ascent" /\ pc' = "ascent")
       => LET rocket == ascentInput.rocket
              firstCoast == /\ t >= rocket.motorBurnTime
                            /\ t - ascentInput.timeStep < rocket.motorBurnTime
          IN IF firstCoast
             THEN /\ burnoutAltitude' = z - ascentInput.launchElevation
                  /\ burnoutVelocity' = sqrt(vx * vx + vy * vy + vz * vz)
             ELSE /\ burnoutAltitude' = burnoutAltitude
                  /\ burnoutVelocity' = burnoutVelocity]_vars

\* C23: a periodic timer is live exactly when status is 'running', in the
\* state after construction and after every call and tick; so a tick only
\* fires while status is 'running'.
C23_TimerIffRunning ==
  [][/\ (DOMAIN timers # {}) <=> (status = "running")
     /\ (DOMAIN timers' # {}) <=> (status' = "running")
     /\ lastCall'[1] = "tick" => status = "running"]_vars

\* a playback paused after it had emitted: no timer is left
C23_Witness ==
  /\ lastCall[1] = "pause"
  /\ status = "paused"
  /\ currentTime > 0
  /\ DOMAIN timers = {}
  /\ intervalId = NULL

\* C24: a playback that is running or paused, and is not stopped, leads to
\* status 'completed'.
C24_EventuallyCompleted ==
  (status \in {"running", "paused"}) ~> (status = "completed")

\* a playback that was paused for some time, resumed and then completed
C24_Witness ==
  /\ status = "completed"
  /\ lastCall[1] = "tick"
  /\ totalPaused > 0
  /\ DOMAIN timers = {}

\* what an instance observes of its own configuration: its mode, its
\* playback speed and the period of its timer
Observed(objects, svcs, j) ==
  [mode |-> configOf(objects, svcs, j).mode,
   playbackSpeed |-> configOf(objects, svcs, j).playbackSpeed,
   interval |-> svcs[j].interval]

\* C25: a call of setPlaybackSpeed, setMode or start on one instance leaves
\* the mode, the playback speed and the timer period of every other
\* instance as they were.
C25_InstancesIndependent ==
  [][\A i \in Instances :
       (instanceCall'[2] = i /\ instanceCall'[1] \in {"setPlaybackSpeed", "setMode", "start"})
         => \A j \in Instances \ {i} :
              Observed(configObjects', services', j) = Observed(configObjects, services, j)]_vars

\* C26: during calculateAscent the vehicle mass that the acceleration is
\* computed with is never below the dry mass.
C26_MassAtLeastDry ==
  (pc \in {"ascent", "apogee", "ascentDone"}) => mass >= ascentInput.rocket.dryMass

\* C27: every trajectory point calculateAscent has recorded is at or above
\* the launch elevation.
C27_AscentAboveGround ==
  (pc \in {"ascent", "apogee", "ascentDone"})
    => \A i \in 1..Len(trajectoryPoints) :
         trajectoryPoints[i].position.z >= ascentInput.launchElevation

\* C28: in a result of calculateTrajectory, stats.maxAltitude is at least
\* the height above the launch elevation of every trajectory point.
C28_MaxAltitudeBounds ==
  (pc = "assembled")
    => LET elevation == TrajectoryInputTable[trajectoryInput].launchSite.elevation
           points == trajectory.trajectoryPoints
       IN \A i \in 1..Len(points) :
            points[i].position.z - elevation <= trajectory.stats.maxAltitude

\* C29: with the default wind uncertainty the semi-major axis returned by
\* calculateUncertaintyEllipse is at least the semi-minor axis.
C29_MajorAtLeastMinor ==
  ellipseReturned => ellipse.semiMajor >= ellipse.semiMinor

\* C30: every call of getWindAtAltitude returns a finite speed and a finite
\* direction (a fraction with a denominator that is not 0).
C30_WindTotal ==
  (windAltitude >= 0)
    => /\ windResult.speed[2] # 0
       /\ windResult.direction[2] # 0

\* the wind asked for at 80 m, the altitude two layers share under a third
\* one at 120 m: the call interpolates between the surface and 80 m
C30_Witness ==
  /\ windAltitude = 80
  /\ Len(layers) = 4
  /\ layers[2].altitude = 80
  /\ layers[3].altitude = 80
  /\ layers[4].altitude = 120
  /\ windResult.speed[2] = 80

====
